---- MODULE Spec2Model ----
(***************************************************************************)
(* EZVIZ cloud integration (custom_components/ezviz_cloud): the account    *)
(* entry, entry setup with token validation and rotation, the account      *)
(* config flow (user step, MFA step) and the reauthentication flow.        *)
(*                                                                         *)
(* Strings that the code slices (API hosts) are sequences of one-character *)
(* strings.  A dict is a function whose DOMAIN is the set of its keys.     *)
(* Every handler awaits its login call in the executor, so it is split at  *)
(* that await into a _begin action (up to the call) and a _resume action   *)
(* (the cloud's answer and the rest of the handler).                       *)
(***************************************************************************)
EXTENDS Integers, Sequences, FiniteSets, TLC

VARIABLES
    entryExists,    \* a config entry for the account is registered
    entryData,      \* ConfigEntry.data
    entryOptions,   \* ConfigEntry.options
    runtimeData,    \* hass.data[DOMAIN] holds runtime objects of the entry
    inflight,       \* client.login calls submitted to the executor, by requester
    resp,           \* the answer client.login delivered in the latest step, if it was a resume
    setupState,     \* async_setup_entry: position; outcome of the last finished run and
                    \* whether that run wrote entry data
    reauthRaised,   \* ConfigEntryAuthFailed was raised and no reauth has succeeded since
    uf,             \* the account config flow (steps user, user_mfa_confirm)
    rf,             \* the reauthentication flow (steps reauth_confirm, reauth_mfa)
    opt,            \* the options flow handler (EzvizOptionsFlowHandler)
    res,            \* the latest run of _test_rtsp_credentials: what it was given,
                    \* the cloud and device calls it made and how it ended
    poller,         \* the coordinator's poll and the entities' cloud calls
    entries,        \* the config entries of the domain seen by async_migrate_entry
    migration,      \* the latest run of async_migrate_entry
    legacyCams,     \* the ha-ezviz camera platform: its cameras and the log
                    \* records it emitted
    hostCall,       \* a call of _normalize_api_host: its argument and result
    mqtt            \* the entry's EzvizMqttHandler, the push callbacks scheduled on
                    \* the event loop, and the latest async_unload_entry

\* the variables outside the account entry's setup and config flows
deviceVars == <<opt, res, poller, entries, migration, legacyCams, hostCall, mqtt>>

vars == <<entryExists, entryData, entryOptions, runtimeData, inflight, resp,
          setupState, reauthRaised, uf, rf, opt, res, poller, entries, migration,
          legacyCams, hostCall, mqtt>>

-----------------------------------------------------------------------------
(* Bounds *)

\* form submissions accepted by one flow
MaxSubmits == 3

\* cloud calls issued by the poller and the entities
MaxPolls == 3

-----------------------------------------------------------------------------
(* const.py *)

ATTR_TYPE_CLOUD == "EZVIZ_CLOUD_ACCOUNT"
CONF_TYPE == "type"
CONF_SESSION_ID == "session_id"
CONF_RF_SESSION_ID == "rf_session_id"
CONF_USER_ID == "user_id"
CONF_URL == "url"
CONF_TIMEOUT == "timeout"
OPTIONS_KEY_CAMERAS == "cameras"
REGION_EU == "eu"
REGION_RU == "ru"
REGION_CUSTOM == "custom"
DEFAULT_TIMEOUT == 25

EU_URL ==
    <<"a","p","i","i","e","u",".","e","z","v","i","z","l","i","f","e",".","c","o","m">>

\* EU_URL and RUSSIA_URL by region
REGION_URLS ==
    [eu |-> EU_URL,
     ru |-> <<"a","p","i","r","u","s",".","e","z","v","i","z","r","u",".","c","o","m">>]

ATTR_TYPE_CAMERA == "CAMERA_ACCOUNT"
ATTR_SERIAL == "serial"
CONF_USERNAME == "username"
CONF_PASSWORD == "password"
CONF_ENC_KEY == "enc_key"
CONF_RTSP_USES_VERIFICATION_CODE == "rtsp_uses_verification_code"
CONF_CAM_VERIFICATION_2FA_CODE == "cam_verification_2fa_code"
CONF_CAM_ENC_2FA_CODE == "cam_encryption_2fa_code"
CONF_FFMPEG_ARGUMENTS == "ffmpeg_arguments"
DEFAULT_CAMERA_USERNAME == "admin"
DEFAULT_FFMPEG_ARGUMENTS == "/Streaming/Channels/102"
DEFAULT_FETCH_MY_KEY == "fetch_my_key"
FETCH == "fetch_my_key"
TARGET_VERSION == 4

-----------------------------------------------------------------------------
(* Strings and dicts *)

EmptyDict == [k \in {} |-> 0]

\* {**a, **b}
DictMerge(a, b) ==
    [k \in DOMAIN a \cup DOMAIN b |-> IF k \in DOMAIN b THEN b[k] ELSE a[k]]

\* d.get(k, default)
DictGet(d, k, default) == IF k \in DOMAIN d THEN d[k] ELSE default

\* the characters str.strip() removes
Whitespace == {" ", "\t", "\n"}

\* s[n:]
DropFirst(s, n) == IF n >= Len(s) THEN <<>> ELSE SubSeq(s, n + 1, Len(s))

\* s.startswith(p)
StartsWith(s, p) == Len(s) >= Len(p) /\ SubSeq(s, 1, Len(p)) = p

RECURSIVE LStrip(_, _)
LStrip(s, chars) ==
    IF s # <<>> /\ Head(s) \in chars THEN LStrip(Tail(s), chars) ELSE s

RECURSIVE RStrip(_, _)
RStrip(s, chars) ==
    IF s # <<>> /\ s[Len(s)] \in chars
    THEN RStrip(SubSeq(s, 1, Len(s) - 1), chars)
    ELSE s

\* str.strip(chars)
Strip(s, chars) == RStrip(LStrip(s, chars), chars)

HTTP_PREFIX == <<"h","t","t","p",":","/","/">>
HTTPS_PREFIX == <<"h","t","t","p","s",":","/","/">>

_normalize_api_host(value) ==
    LET v0 == Strip(value, Whitespace)
        v1 == IF StartsWith(v0, HTTP_PREFIX) THEN DropFirst(v0, 7)
              ELSE IF StartsWith(v0, HTTPS_PREFIX) THEN DropFirst(v0, 8)
              ELSE v0
    IN  Strip(Strip(v1, Whitespace), {"/"})

\* a custom URL accepted whatever it normalizes to
_resolve_api_host_unchecked(region, custom_url) ==
    IF region = REGION_CUSTOM
    THEN [ok |-> TRUE, host |-> _normalize_api_host(custom_url)]
    ELSE [ok |-> TRUE, host |-> REGION_URLS[region]]

\* ok = FALSE stands for raising vol.Invalid("invalid_url")
_resolve_api_host(region, custom_url) ==
    IF region = REGION_CUSTOM
    THEN LET host == _normalize_api_host(custom_url)
         IN  IF host = <<>> THEN [ok |-> FALSE, host |-> <<>>]
                            ELSE [ok |-> TRUE, host |-> host]
    ELSE [ok |-> TRUE, host |-> REGION_URLS[region]]

-----------------------------------------------------------------------------
(* The cloud service behind EzvizClient.login, and what users type *)

Requesters == {"setup", "user", "reauth"}

\* an API host that no user chose, echoed by a login response
ROGUE_URL == <<"e","v","i","l">>

\* what client.login does: return a token, or raise EzvizAuthVerificationCode,
\* EzvizAuthTokenExpired, one of InvalidURL/HTTPError/PyEzvizError, or
\* any other exception
LoginAnswers ==
    [kind : {"ok"}, token : ({ [session_id |-> sid, rf_session_id |-> rfs,
            username |-> id.username, api_url |-> id.api_url] :
            sid \in {"", "S1", "S2"}, rfs \in {"", "R1", "R2"},
            id \in { [username |-> "U1", api_url |-> EU_URL],
            [username |-> "U2", api_url |-> ROGUE_URL] } })]
    \cup [kind : {"verification_required", "token_expired", "api_error", "unexpected"}]

Account == "user@example.com"
Passwords == {"pw1"}
SmsCodes == {"", "123456"}
Timeouts == {10, DEFAULT_TIMEOUT}

\* user_input of the user step; CONF_URL is optional
UserInputs ==
    [username : {Account}, password : Passwords,
     region : {REGION_EU, REGION_RU, REGION_CUSTOM}, timeout : Timeouts]
    \cup [username : {Account}, password : Passwords,
          region : {REGION_CUSTOM}, url : ({ <<>>,
                  <<" ">>,
                  <<"a">>,
                  <<" ", "a", "/", " ">>,
                  HTTP_PREFIX,
                  HTTP_PREFIX \o <<"a", "/">>,
                  HTTPS_PREFIX \o <<"a">> }), timeout : Timeouts]

NoCall == [active |-> FALSE]

NoResp == [to |-> "none", kind |-> "none"]

\* EzvizClient(account=..., password=..., url=..., timeout=...).login(sms_code)
PasswordLogin(account, password, url, timeout, sms_code) ==
    [active |-> TRUE, by |-> "password", account |-> account,
     password |-> password, url |-> url, timeout |-> timeout,
     sms_code |-> sms_code]

\* EzvizClient(token={...}, timeout=...).login()
TokenLogin(data, timeout) ==
    [active |-> TRUE, by |-> "token", session_id |-> data[CONF_SESSION_ID],
     rf_session_id |-> data[CONF_RF_SESSION_ID], url |-> data[CONF_URL],
     user_id |-> data[CONF_USER_ID], timeout |-> timeout]

InFlight == {r \in Requesters : inflight[r].active}

-----------------------------------------------------------------------------
(* State after Home Assistant has loaded its stored config entries *)

NoEntryData == [type |-> "none"]

DefaultOptions ==
    [timeout |-> DEFAULT_TIMEOUT, cameras |-> EmptyDict]

NoInput == [region |-> "none"]

NewUserFlow ==
    [step |-> "none", errors |-> "", logins |-> 0, submits |-> 0,
     user_input |-> NoInput,
     pending_user_username |-> "", pending_user_password |-> "",
     pending_user_url |-> <<>>, pending_user_timeout |-> DEFAULT_TIMEOUT]

NewReauthFlow ==
    [step |-> "none", errors |-> "", logins |-> 0, submits |-> 0,
     reauth_username |-> "", reauth_password |-> "",
     reauth_url |-> <<>>, reauth_timeout |-> 0]

\* no options flow is open; _pending and _prefill are None.  defaults are
\* the defaults of the camera_edit form as shown; enc_key_fetched records
\* that an encryption-key fetch succeeded for the values being resolved
NewOptionsFlow ==
    [step |-> "none", cam_serial |-> "", pending |-> EmptyDict,
     prefill |-> EmptyDict, defaults |-> EmptyDict, errors |-> "",
     submits |-> 0, enc_key_fetched |-> FALSE]

\* _test_rtsp_credentials did not run in the latest step
NoRun == [ran |-> FALSE]

\* no EzvizMqttHandler has been created and async_unload_entry has not run
NoMqtt ==
    [listener |-> "none", coordinator |-> FALSE, scheduled |-> 0, merged |-> 0,
     failed |-> 0, unload |-> [calls |-> <<>>, result |-> "none"]]

\* _normalize_api_host has not been called
NoHostCall == [value |-> <<>>, done |-> FALSE, host |-> <<>>]

\* no poll and no entity update has run
NoPoll ==
    [calls |-> 0, by |-> "none", answer |-> "none", raised |-> "none",
     use_ezvizapi_mac |-> FALSE, data |-> EmptyDict, text |-> EmptyDict]

\* async_migrate_entry did not run in the latest step
NoMigration == [ran |-> FALSE]

\* the ha-ezviz camera platform is not configured
NoLegacyPlatform ==
    [state |-> "none", conf_cameras |-> EmptyDict, cameras |-> EmptyDict,
     log |-> {}]

\* the options flow, the poller and the migration are not running: the entry
\* has no runtime objects and no stored entry is older than TARGET_VERSION
DeviceSideIdle ==
    /\ opt = NewOptionsFlow
    /\ res = NoRun
    /\ poller = NoPoll
    /\ entries = EmptyDict
    /\ migration = NoMigration
    /\ legacyCams = NoLegacyPlatform
    /\ hostCall = NoHostCall
    /\ mqtt = NoMqtt

Init ==
    /\ DeviceSideIdle
    /\ \/ /\ entryExists = FALSE
          /\ entryData = NoEntryData
          /\ entryOptions = EmptyDict
       \/ /\ entryExists = TRUE
          /\ entryData \in ({ [type |-> ATTR_TYPE_CLOUD, url |-> EU_URL],
                  [type |-> ATTR_TYPE_CLOUD, url |-> EU_URL, user_id |-> "U1"] })
          /\ entryOptions = EmptyDict
    /\ runtimeData = FALSE
    /\ inflight = [r \in Requesters |-> NoCall]
    /\ resp = NoResp
    /\ setupState = [pc |-> "idle", result |-> "none", wrote |-> FALSE]
    /\ reauthRaised = FALSE
    /\ uf = NewUserFlow
    /\ rf = NewReauthFlow

-----------------------------------------------------------------------------
(* __init__.py: async_setup_entry *)

\* setup also insisting on a stored password
required_token_keys_with_password ==
    {CONF_SESSION_ID, CONF_RF_SESSION_ID, CONF_URL, CONF_USER_ID, "password"}

required_token_keys == {CONF_SESSION_ID, CONF_RF_SESSION_ID, CONF_URL, CONF_USER_ID}

\* every non-empty returned token is written back, rotated or not
RotationUpdate_always(data, token) ==
    LET sid == token[CONF_SESSION_ID]
        rfs == token[CONF_RF_SESSION_ID]
        u1 == IF sid # "" THEN [session_id |-> sid] ELSE EmptyDict
        u2 == IF rfs # "" THEN [rf_session_id |-> rfs] ELSE EmptyDict
    IN  DictMerge(u1, u2)

\* tokens are written back as a pair, and only when both are non-empty
RotationUpdate_pair(data, token) ==
    LET sid == token[CONF_SESSION_ID]
        rfs == token[CONF_RF_SESSION_ID]
    IN  IF /\ sid # "" /\ rfs # ""
           /\ (sid # data[CONF_SESSION_ID] \/ rfs # data[CONF_RF_SESSION_ID])
        THEN [session_id |-> sid, rf_session_id |-> rfs]
        ELSE EmptyDict

\* lines 122-129: the fields of the returned token that are written back
RotationUpdate(data, token) ==
    LET sid == token[CONF_SESSION_ID]
        rfs == token[CONF_RF_SESSION_ID]
        u1 == IF sid # "" /\ sid # data[CONF_SESSION_ID]
              THEN [session_id |-> sid] ELSE EmptyDict
        u2 == IF rfs # "" /\ rfs # data[CONF_RF_SESSION_ID]
              THEN [rf_session_id |-> rfs] ELSE EmptyDict
    IN  DictMerge(u1, u2)

\* every failed login asks for a retry
SetupError_not_ready(kind) ==
    CASE kind \in {"token_expired", "verification_required", "api_error"} ->
              "not_ready"
      [] kind = "unexpected" -> "error"

\* the except clauses around client.login (lines 116-120): ConfigEntryAuthFailed,
\* ConfigEntryNotReady, or the exception leaves async_setup_entry uncaught
SetupError(kind) ==
    CASE kind \in {"token_expired", "verification_required"} -> "auth_failed"
      [] kind = "api_error" -> "not_ready"
      [] kind = "unexpected" -> "error"

\* up to the awaited client.login (lines 78-114)
async_setup_entry_begin ==
    /\ UNCHANGED deviceVars
    /\ entryExists
    /\ setupState.pc = "idle"
    /\ UNCHANGED <<entryExists, entryData, runtimeData, uf, rf>>
    /\ resp' = NoResp
    /\ IF entryData[CONF_TYPE] # ATTR_TYPE_CLOUD
       THEN /\ setupState' = [pc |-> "idle", result |-> "true", wrote |-> FALSE]
            /\ UNCHANGED <<entryOptions, inflight, reauthRaised>>
       ELSE /\ entryOptions' =
                  IF DOMAIN entryOptions = {} THEN DefaultOptions ELSE entryOptions
            /\ IF ~(required_token_keys \subseteq DOMAIN entryData)
               THEN \* raise ConfigEntryAuthFailed
                    /\ setupState' =
                          [pc |-> "idle", result |-> "auth_failed", wrote |-> FALSE]
                    /\ reauthRaised' = TRUE
                    /\ UNCHANGED inflight
               ELSE /\ inflight' =
                          [inflight EXCEPT !["setup"] =
                              TokenLogin(entryData,
                                  DictGet(entryOptions', CONF_TIMEOUT, DEFAULT_TIMEOUT))]
                    /\ setupState' = [setupState EXCEPT !.pc = "login"]
                    /\ UNCHANGED reauthRaised

\* from the answer of client.login on (lines 114-161)
async_setup_entry_resume ==
    /\ UNCHANGED deviceVars
    /\ setupState.pc = "login"
    /\ \E a \in LoginAnswers :
        /\ resp' = [to |-> "setup"] @@ a
        /\ inflight' = [inflight EXCEPT !["setup"] = NoCall]
        /\ UNCHANGED <<entryExists, entryOptions, runtimeData, uf, rf>>
        /\ CASE a.kind # "ok" ->
                  /\ setupState' =
                        [pc |-> "idle", result |-> SetupError(a.kind),
                         wrote |-> FALSE]
                  /\ reauthRaised' =
                        (reauthRaised \/ SetupError(a.kind) = "auth_failed")
                  /\ UNCHANGED entryData
             [] a.kind = "ok" ->
                  LET to_update == RotationUpdate(entryData, a.token)
                  IN  /\ entryData' =
                            IF DOMAIN to_update # {}
                            THEN DictMerge(entryData, to_update)
                            ELSE entryData
                      \* line 134: EzvizDataUpdateCoordinator(...) is called
                      \* without its required keyword use_ezvizapi_mac and
                      \* raises TypeError; nothing after it runs
                      /\ setupState' =
                            [pc |-> "idle", result |-> "type_error",
                             wrote |-> DOMAIN to_update # {}]
                      /\ UNCHANGED reauthRaised

-----------------------------------------------------------------------------
(* config_flow.py: EzvizConfigFlow, initial user setup *)

\* the except clauses around client.login in the four flow steps
FlowError(kind) ==
    CASE kind = "verification_required" -> "verification_required"
      [] kind \in {"token_expired", "api_error"} -> "cannot_connect"
      [] kind = "unexpected" -> "unknown"

\* the entry storing the login response as it came
CloudEntryData_whole_token(token, api_url) ==
    DictMerge(token, [type |-> ATTR_TYPE_CLOUD, url |-> api_url,
                      user_id |-> token["username"]])

\* the entry storing the API host the login response reports
CloudEntryData_echoed_host(token, api_url) ==
    [type |-> ATTR_TYPE_CLOUD,
     session_id |-> token[CONF_SESSION_ID],
     rf_session_id |-> token[CONF_RF_SESSION_ID],
     url |-> token["api_url"],
     user_id |-> token["username"]]

\* data and options passed to async_create_entry
CloudEntryData(token, api_url) ==
    [type |-> ATTR_TYPE_CLOUD,
     session_id |-> token[CONF_SESSION_ID],
     rf_session_id |-> token[CONF_RF_SESSION_ID],
     url |-> api_url,
     user_id |-> token["username"]]

\* the entry created with the default timeout, not the chosen one
CloudEntryOptions_default_timeout(timeout) ==
    [timeout |-> DEFAULT_TIMEOUT, cameras |-> EmptyDict]

CloudEntryOptions(timeout) == [timeout |-> timeout, cameras |-> EmptyDict]

\* a finished flow: its handler object is discarded, what stays recorded is
\* its result and how many login calls it made
FinishedUserFlow(f, result, reason) ==
    [f EXCEPT !.step = result, !.errors = reason,
              !.submits = 0, !.user_input = NoInput]

\* a flow is opened: async_step_user(None) shows the user form
async_step_user_show ==
    /\ UNCHANGED deviceVars
    /\ uf.step \in {"none", "user", "user_mfa_confirm", "create_entry", "abort"}
    /\ uf' = [NewUserFlow EXCEPT !.step = "user"]
    /\ resp' = NoResp
    /\ UNCHANGED <<entryExists, entryData, entryOptions, runtimeData, inflight,
                   setupState, reauthRaised, rf>>

\* the user form is submitted, up to the awaited client.login (lines 189-214)
async_step_user_begin ==
    /\ UNCHANGED deviceVars
    /\ uf.step = "user"
    /\ uf.submits < MaxSubmits
    /\ resp' = NoResp
    /\ UNCHANGED <<entryExists, entryData, entryOptions, runtimeData,
                   setupState, reauthRaised, rf>>
    /\ \E user_input \in UserInputs :
        LET resolved == _resolve_api_host(user_input.region,
                                          DictGet(user_input, CONF_URL, <<>>))
            timeout == DictGet(user_input, CONF_TIMEOUT, DEFAULT_TIMEOUT)
            f == [uf EXCEPT !.submits = @ + 1]
        IN  IF entryExists
            THEN \* _abort_if_unique_id_configured
                 /\ uf' = FinishedUserFlow(f, "abort", "already_configured")
                 /\ UNCHANGED inflight
            ELSE IF ~resolved.ok
            THEN /\ uf' = [f EXCEPT !.errors = "invalid_url"]
                 /\ UNCHANGED inflight
            ELSE /\ inflight' =
                       [inflight EXCEPT !["user"] =
                           PasswordLogin(user_input.username, user_input.password,
                                         resolved.host, timeout, "")]
                 /\ uf' = [f EXCEPT !.step = "user_login", !.errors = "",
                                    !.user_input = user_input,
                                    !.logins = @ + 1]

\* from the answer of client.login on (lines 214-263)
async_step_user_resume ==
    /\ UNCHANGED deviceVars
    /\ uf.step = "user_login"
    /\ \E a \in LoginAnswers :
        LET call == inflight["user"]
        IN  /\ resp' = [to |-> "user"] @@ a
            /\ inflight' = [inflight EXCEPT !["user"] = NoCall]
            /\ UNCHANGED <<runtimeData, setupState, reauthRaised, rf>>
            /\ CASE a.kind = "verification_required" ->
                      \* stash pending values, show the MFA form
                      /\ uf' = [uf EXCEPT
                                   !.step = "user_mfa_confirm",
                                   !.errors = "",
                                   !.pending_user_username = call.account,
                                   !.pending_user_password = call.password,
                                   !.pending_user_url = call.url,
                                   !.pending_user_timeout = call.timeout]
                      /\ UNCHANGED <<entryExists, entryData, entryOptions>>
                 [] a.kind = "ok" ->
                      /\ entryExists' = TRUE
                      /\ entryData' = CloudEntryData(a.token, call.url)
                      /\ entryOptions' = CloudEntryOptions(call.timeout)
                      /\ uf' = FinishedUserFlow(uf, "create_entry", "")
                 [] OTHER ->
                      /\ uf' = [uf EXCEPT !.step = "user",
                                          !.errors = FlowError(a.kind),
                                          !.user_input = NoInput]
                      /\ UNCHANGED <<entryExists, entryData, entryOptions>>

\* the MFA form is submitted, up to the awaited client.login (lines 271-281)
async_step_user_mfa_confirm_begin ==
    /\ UNCHANGED deviceVars
    /\ uf.step = "user_mfa_confirm"
    /\ uf.submits < MaxSubmits
    /\ \E sms_code \in SmsCodes :
        /\ inflight' =
              [inflight EXCEPT !["user"] =
                  PasswordLogin(uf.pending_user_username, uf.pending_user_password,
                                uf.pending_user_url, uf.pending_user_timeout,
                                sms_code)]
        /\ uf' = [uf EXCEPT !.step = "mfa_login", !.errors = "",
                            !.submits = @ + 1, !.logins = @ + 1]
    /\ resp' = NoResp
    /\ UNCHANGED <<entryExists, entryData, entryOptions, runtimeData,
                   setupState, reauthRaised, rf>>

\* from the answer of client.login on (lines 281-309)
async_step_user_mfa_confirm_resume ==
    /\ UNCHANGED deviceVars
    /\ uf.step = "mfa_login"
    /\ \E a \in LoginAnswers :
        /\ resp' = [to |-> "user"] @@ a
        /\ inflight' = [inflight EXCEPT !["user"] = NoCall]
        /\ UNCHANGED <<runtimeData, setupState, reauthRaised, rf>>
        /\ IF a.kind = "ok"
           THEN /\ entryExists' = TRUE
                /\ entryData' = CloudEntryData(a.token, uf.pending_user_url)
                /\ entryOptions' = CloudEntryOptions(uf.pending_user_timeout)
                /\ uf' = FinishedUserFlow(uf, "create_entry", "")
           ELSE /\ uf' = [uf EXCEPT !.step = "user_mfa_confirm",
                                    !.errors = FlowError(a.kind)]
                /\ UNCHANGED <<entryExists, entryData, entryOptions>>

-----------------------------------------------------------------------------
(* config_flow.py: EzvizConfigFlow, reauthentication *)

FinishedReauthFlow(f, result, reason) ==
    [NewReauthFlow EXCEPT !.step = result, !.errors = reason]

\* Home Assistant opens the flow after ConfigEntryAuthFailed, unless one is
\* open; async_step_reauth finds the cloud entry and shows reauth_confirm
async_step_reauth ==
    /\ UNCHANGED deviceVars
    /\ reauthRaised
    /\ rf.step \in {"none", "done", "abort"}
    /\ rf' = IF entryExists /\ entryData[CONF_TYPE] = ATTR_TYPE_CLOUD
             THEN [NewReauthFlow EXCEPT !.step = "reauth_confirm"]
             ELSE FinishedReauthFlow(NewReauthFlow, "abort", "unknown")
    /\ resp' = NoResp
    /\ UNCHANGED <<entryExists, entryData, entryOptions, runtimeData, inflight,
                   setupState, reauthRaised, uf>>

\* reauth_confirm is submitted, up to the awaited client.login (lines 337-350)
async_step_reauth_confirm_begin ==
    /\ UNCHANGED deviceVars
    /\ rf.step = "reauth_confirm"
    /\ rf.submits < MaxSubmits
    /\ \E password \in Passwords :
        /\ inflight' =
              [inflight EXCEPT !["reauth"] =
                  PasswordLogin(Account, password, entryData[CONF_URL],
                                entryOptions[CONF_TIMEOUT], "")]
        /\ rf' = [rf EXCEPT !.step = "confirm_login", !.errors = "",
                            !.reauth_username = Account,
                            !.reauth_password = password,
                            !.reauth_url = entryData[CONF_URL],
                            !.reauth_timeout = entryOptions[CONF_TIMEOUT],
                            !.submits = @ + 1, !.logins = @ + 1]
    /\ resp' = NoResp
    /\ UNCHANGED <<entryExists, entryData, entryOptions, runtimeData,
                   setupState, reauthRaised, uf>>

\* reauth replacing the session id alone
ReauthData_session_only(data, token) ==
    DictMerge(data, [session_id |-> token[CONF_SESSION_ID]])

\* reauth taking the user id of the response as well
ReauthData_with_user(data, token) ==
    DictMerge(data, [session_id |-> token[CONF_SESSION_ID],
                     rf_session_id |-> token[CONF_RF_SESSION_ID],
                     user_id |-> token["username"]])

\* data passed to async_update_reload_and_abort: {**entry.data, sid, rf}
ReauthData(data, token) ==
    DictMerge(data, [session_id |-> token[CONF_SESSION_ID],
                     rf_session_id |-> token[CONF_RF_SESSION_ID]])

\* a failed login closing the flow instead of showing the form again
async_step_reauth_confirm_resume_closes ==
    /\ UNCHANGED deviceVars
    /\ rf.step = "confirm_login"
    /\ \E a \in LoginAnswers :
        /\ resp' = [to |-> "reauth"] @@ a
        /\ inflight' = [inflight EXCEPT !["reauth"] = NoCall]
        /\ UNCHANGED <<entryExists, entryOptions, runtimeData, setupState, uf>>
        /\ CASE a.kind = "verification_required" ->
                  /\ rf' = [rf EXCEPT !.step = "reauth_mfa", !.errors = ""]
                  /\ UNCHANGED <<entryData, reauthRaised>>
             [] a.kind = "ok" ->
                  /\ entryData' = ReauthData(entryData, a.token)
                  /\ rf' = FinishedReauthFlow(rf, "done", "reauth_successful")
                  /\ reauthRaised' = FALSE
             [] OTHER ->
                  /\ rf' = FinishedReauthFlow(rf, "abort", FlowError(a.kind))
                  /\ UNCHANGED <<entryData, reauthRaised>>

\* from the answer of client.login on (lines 350-381)
async_step_reauth_confirm_resume ==
    /\ UNCHANGED deviceVars
    /\ rf.step = "confirm_login"
    /\ \E a \in LoginAnswers :
        /\ resp' = [to |-> "reauth"] @@ a
        /\ inflight' = [inflight EXCEPT !["reauth"] = NoCall]
        /\ UNCHANGED <<entryExists, entryOptions, runtimeData, setupState, uf>>
        /\ CASE a.kind = "verification_required" ->
                  /\ rf' = [rf EXCEPT !.step = "reauth_mfa", !.errors = ""]
                  /\ UNCHANGED <<entryData, reauthRaised>>
             [] a.kind = "ok" ->
                  /\ entryData' = ReauthData(entryData, a.token)
                  /\ rf' = FinishedReauthFlow(rf, "done", "reauth_successful")
                  /\ reauthRaised' = FALSE
             [] OTHER ->
                  /\ rf' = [rf EXCEPT !.step = "reauth_confirm",
                                      !.errors = FlowError(a.kind)]
                  /\ UNCHANGED <<entryData, reauthRaised>>

\* reauth_mfa is submitted, up to the awaited client.login (lines 389-399)
async_step_reauth_mfa_begin ==
    /\ UNCHANGED deviceVars
    /\ rf.step = "reauth_mfa"
    /\ rf.submits < MaxSubmits
    /\ \E sms_code \in SmsCodes :
        /\ inflight' =
              [inflight EXCEPT !["reauth"] =
                  PasswordLogin(rf.reauth_username, rf.reauth_password,
                                rf.reauth_url, rf.reauth_timeout, sms_code)]
        /\ rf' = [rf EXCEPT !.step = "mfa_login", !.errors = "",
                            !.submits = @ + 1, !.logins = @ + 1]
    /\ resp' = NoResp
    /\ UNCHANGED <<entryExists, entryData, entryOptions, runtimeData,
                   setupState, reauthRaised, uf>>

\* a rejected one-time code answered by logging in again at once
async_step_reauth_mfa_resume_autoloop ==
    /\ UNCHANGED deviceVars
    /\ rf.step = "mfa_login"
    /\ \E a \in LoginAnswers :
        /\ resp' = [to |-> "reauth"] @@ a
        /\ UNCHANGED <<entryExists, entryOptions, runtimeData, setupState, uf>>
        /\ IF a.kind = "ok"
           THEN /\ entryData' = ReauthData(entryData, a.token)
                /\ rf' = FinishedReauthFlow(rf, "done", "reauth_successful")
                /\ reauthRaised' = FALSE
                /\ inflight' = [inflight EXCEPT !["reauth"] = NoCall]
           ELSE IF a.kind = "verification_required" /\ rf.logins <= MaxSubmits
           THEN /\ rf' = [rf EXCEPT !.logins = @ + 1]
                /\ UNCHANGED <<entryData, reauthRaised, inflight>>
           ELSE /\ rf' = [rf EXCEPT !.step = "reauth_mfa",
                                    !.errors = FlowError(a.kind)]
                /\ inflight' = [inflight EXCEPT !["reauth"] = NoCall]
                /\ UNCHANGED <<entryData, reauthRaised>>

\* from the answer of client.login on (lines 399-421)
async_step_reauth_mfa_resume ==
    /\ UNCHANGED deviceVars
    /\ rf.step = "mfa_login"
    /\ \E a \in LoginAnswers :
        /\ resp' = [to |-> "reauth"] @@ a
        /\ inflight' = [inflight EXCEPT !["reauth"] = NoCall]
        /\ UNCHANGED <<entryExists, entryOptions, runtimeData, setupState, uf>>
        /\ IF a.kind = "ok"
           THEN /\ entryData' = ReauthData(entryData, a.token)
                /\ rf' = FinishedReauthFlow(rf, "done", "reauth_successful")
                /\ reauthRaised' = FALSE
           ELSE /\ rf' = [rf EXCEPT !.step = "reauth_mfa",
                                    !.errors = FlowError(a.kind)]
                /\ UNCHANGED <<entryData, reauthRaised>>

-----------------------------------------------------------------------------

Next ==
    \/ async_setup_entry_begin
    \/ async_setup_entry_resume
    \/ async_step_user_show
    \/ async_step_user_begin
    \/ async_step_user_resume
    \/ async_step_user_mfa_confirm_begin
    \/ async_step_user_mfa_confirm_resume
    \/ async_step_reauth
    \/ async_step_reauth_confirm_begin
    \/ async_step_reauth_confirm_resume
    \/ async_step_reauth_mfa_begin
    \/ async_step_reauth_mfa_resume

Spec == Init /\ [][Next]_vars

TypeOK ==
    /\ entryExists \in BOOLEAN
    /\ InFlight \subseteq Requesters

-----------------------------------------------------------------------------
(* config_flow.py: helpers of the options flow, run in the executor *)

\* Python's None where the code expects a string
NoneStr == "<None>"

\* v or None
OrNone(v) == IF v = "" THEN NoneStr ELSE v

\* d without the keys popped from it
DictPop(d, keys) == [k \in DOMAIN d \ keys |-> d[k]]

BATTERY_CAMERA_DEVICE_CATEGORY == "BatteryCamera"

\* coordinator.data: serial -> camera info, as the poller last stored it
CoordinatorData ==
    [D1 |-> [name |-> "Porch", local_ip |-> "192.0.2.10",
             device_category |-> "IPC"],
     D2 |-> [name |-> "Yard", local_ip |-> "192.0.2.11",
             device_category |-> BATTERY_CAMERA_DEVICE_CATEGORY]]

\* utility.is_camera_device: every device with a device category of a camera
is_camera_device(info) ==
    info["device_category"] \in {"IPC", BATTERY_CAMERA_DEVICE_CATEGORY}

\* the battery category does not occur in the device category
_infer_supports_rtsp_from_category(cam_info) ==
    cam_info["device_category"] # BATTERY_CAMERA_DEVICE_CATEGORY

\* what the cloud returns for a fetched encryption key / verification code
FetchedEncKey == "K1"
FetchedVerificationCode == "VC1"

\* how a cloud or device call ends: "ok", or the exception it raises
\* (EzvizAuthVerificationCode, EzvizAuthTokenExpired, HTTPError/InvalidURL/
\* PyEzvizError, DeviceException, AuthTestResultFailed, any other exception).
\* "unsupported" is the cloud refusing a secret the device model does not
\* have: the client raises PyEzvizError for it as for any refused request
EncAnswers ==
    {"ok", "verification_required", "token_expired", "api_error",
     "unsupported", "device_error", "unexpected"}

\* the exception class a failed call raises
Raised(answer) ==
    CASE answer = "verification_required" -> "EzvizAuthVerificationCode"
      [] answer = "token_expired" -> "EzvizAuthTokenExpired"
      [] answer \in {"api_error", "unsupported"} -> "PyEzvizError"
      [] answer = "device_error" -> "DeviceException"
      [] answer = "auth_failed" -> "AuthTestResultFailed"
      [] answer = "unexpected" -> "Exception"
      [] OTHER -> "none"

\* _get_cam_enc_key: get_cam_key(serial, smscode); what it raises
_get_cam_enc_key(enc) == Raised(enc)

\* _get_cam_verification_code: get_cam_auth_code(serial, msg_auth_code,
\* sender_type); on EzvizAuthVerificationCode it calls get_2fa_check_code
\* (biz_type DEVICE_AUTH_CODE) and raises EzvizAuthVerificationCode again,
\* unless get_2fa_check_code itself raised
_get_cam_verification_code(vc, twofa) ==
    IF vc = "verification_required"
    THEN IF twofa = "ok" THEN "EzvizAuthVerificationCode" ELSE Raised(twofa)
    ELSE Raised(vc)

\* the probe given the encryption key whatever the flag says
ProbeSecret_enc_key(data) == data[CONF_ENC_KEY]

\* the secret _test_camera_rtsp_creds hands to TestRTSPAuth
ProbeSecret(data) ==
    IF data[CONF_RTSP_USES_VERIFICATION_CODE]
    THEN data[CONF_PASSWORD] ELSE data[CONF_ENC_KEY]

\* 'except PyEzvizError' placed first: it also catches its subclasses
Reraised_PyEzvizError_first(raised) ==
    CASE raised \in {"none", "Exception"} -> raised
      [] OTHER -> "PyEzvizError"

\* the except clauses of _test_rtsp_credentials: what leaves the method
Reraised(raised) ==
    CASE raised \in {"none", "EzvizAuthVerificationCode", "DeviceException",
                     "AuthTestResultFailed", "Exception"} -> raised
      [] raised \in {"EzvizAuthTokenExpired", "PyEzvizError"} -> "PyEzvizError"

\* a secret is fetched whatever was submitted for it
NeedsFetch_always(data, key) == TRUE

\* data.get(key) == DEFAULT_FETCH_MY_KEY: the secret is to be fetched
NeedsFetch(data, key) == DictGet(data, key, NoneStr) = DEFAULT_FETCH_MY_KEY

\* the wake-up read and the probe run whatever the flag says
ProbeRequested_always(data) == TRUE

\* data.get("ephemeral_test_rtsp"): the caller asked for the one-time probe
ProbeRequested(data) == DictGet(data, "ephemeral_test_rtsp", FALSE)

\* the calls _test_rtsp_credentials can make for `data`, with the answers
\* the cloud and the device can give; "none" where a call is not made
AnswersFor(data) ==
    UNION { UNION { UNION { UNION {
        { [enc |-> e, vc |-> v, twofa |-> t, wake |-> w, probe |-> p] :
            p \in IF w = "ok" THEN {"ok", "auth_failed", "device_error", "unexpected"} ELSE {"none"} } :
        w \in IF /\ e \in {"none", "ok"}
                 /\ v \in {"none", "ok"}
                 /\ ProbeRequested(data)
              THEN {"ok", "api_error"} ELSE {"none"} } :
        t \in IF v = "verification_required" THEN {"ok", "api_error"} ELSE {"none"} } :
        v \in IF e \in {"none", "ok"} /\ NeedsFetch(data, CONF_PASSWORD)
              THEN EncAnswers ELSE {"none"} } :
        e \in IF NeedsFetch(data, CONF_ENC_KEY) THEN EncAnswers ELSE {"none"} }

\* _test_rtsp_credentials(data) with the answers a: the record of the run.
\* data is updated in place, so the dict attached to a re-raised exception
\* (e.data) holds what was fetched before the failure
_test_rtsp_credentials(step, data, a) ==
    LET fetchEnc == NeedsFetch(data, CONF_ENC_KEY)
        encRaised == IF fetchEnc THEN _get_cam_enc_key(a.enc) ELSE "none"
        d1 == IF fetchEnc /\ encRaised = "none"
              THEN [data EXCEPT ![CONF_ENC_KEY] = FetchedEncKey] ELSE data
        fetchVc == encRaised = "none" /\ NeedsFetch(d1, CONF_PASSWORD)
        vcRaised == IF fetchVc THEN _get_cam_verification_code(a.vc, a.twofa)
                               ELSE "none"
        d2 == IF fetchVc /\ vcRaised = "none"
              THEN [d1 EXCEPT ![CONF_PASSWORD] = FetchedVerificationCode] ELSE d1
        \* _wake_camera: get_detection_sensibility, then _test_camera_rtsp_creds
        wake == /\ encRaised = "none" /\ vcRaised = "none"
                /\ ProbeRequested(d2)
        wakeRaised == IF wake THEN Raised(a.wake) ELSE "none"
        probe == wake /\ wakeRaised = "none"
        probeRaised == IF probe THEN Raised(a.probe) ELSE "none"
        raised == IF encRaised # "none" THEN encRaised
                  ELSE IF vcRaised # "none" THEN vcRaised
                  ELSE IF wakeRaised # "none" THEN wakeRaised
                  ELSE probeRaised
    IN  [ran |-> TRUE,
         step |-> step,
         serial |-> data[ATTR_SERIAL],
         given |-> [enc_key |-> data[CONF_ENC_KEY],
                    password |-> data[CONF_PASSWORD]],
         probe_flag |-> DictGet(data, "ephemeral_test_rtsp", FALSE),
         enc |-> IF fetchEnc THEN a.enc ELSE "none",
         enc_code |-> IF fetchEnc
                      THEN DictGet(data, CONF_CAM_ENC_2FA_CODE, NoneStr)
                      ELSE NoneStr,
         vc |-> IF fetchVc THEN a.vc ELSE "none",
         vc_code |-> IF fetchVc
                     THEN DictGet(data, CONF_CAM_VERIFICATION_2FA_CODE, NoneStr)
                     ELSE NoneStr,
         twofa |-> IF fetchVc /\ a.vc = "verification_required"
                   THEN a.twofa ELSE "none",
         \* the cloud and device calls in the order they were issued
         calls |-> (IF fetchEnc THEN <<"get_cam_key">> ELSE <<>>)
                   \o (IF fetchVc THEN <<"get_cam_auth_code">> ELSE <<>>)
                   \o (IF fetchVc /\ a.vc = "verification_required"
                       THEN <<"get_2fa_check_code">> ELSE <<>>)
                   \o (IF wake THEN <<"get_detection_sensibility">> ELSE <<>>)
                   \o (IF probe THEN <<"TestRTSPAuth">> ELSE <<>>),
         wake |-> IF wake THEN a.wake ELSE "none",
         probe |-> IF probe THEN a.probe ELSE "none",
         probe_secret |-> IF probe THEN ProbeSecret(d2) ELSE NoneStr,
         raised |-> Reraised(raised),
         \* the dict the caller passed in, as the method leaves it
         \* (the ephemeral keys are popped before the resolved dict is returned)
         data |-> IF raised = "none"
                  THEN DictPop(d2, {CONF_CAM_VERIFICATION_2FA_CODE,
                                    CONF_CAM_ENC_2FA_CODE, "ephemeral_test_rtsp",
                                    "ip_address", "cloud_account_username"})
                  ELSE d2,
         \* the re-raised exception carries it as e.data
         has_data |-> Reraised(raised) \in {"DeviceException",
                                            "AuthTestResultFailed",
                                            "PyEzvizError"}]

-----------------------------------------------------------------------------
(* config_flow.py: EzvizOptionsFlowHandler *)

\* user_input of camera_edit: typed values, or the form's defaults as shown
CameraInputs(defaults) ==
    ([username : {DEFAULT_CAMERA_USERNAME},
            password : {DEFAULT_FETCH_MY_KEY, "VC0"},
            enc_key : {DEFAULT_FETCH_MY_KEY, "K0"},
            rtsp_uses_verification_code : BOOLEAN,
            ephemeral_test_rtsp : BOOLEAN,
            ffmpeg_arguments : {DEFAULT_FFMPEG_ARGUMENTS}]) \cup (IF DOMAIN defaults = {} THEN {} ELSE {defaults})

\* the cameras offered by camera_select
Cameras == {serial \in DOMAIN CoordinatorData :
               is_camera_device(CoordinatorData[serial])}

\* (base_opts.get(OPTIONS_KEY_CAMERAS, {}) or {}).get(serial, {})
PerCam(options, serial) ==
    DictGet(DictGet(options, OPTIONS_KEY_CAMERAS, EmptyDict), serial, EmptyDict)

\* _make_prefill(src, ui) inside async_step_camera_edit (lines 513-550);
\* None is the empty dict
_make_prefill(src, ui, per_cam, test_rtsp_default) ==
    [username |->
        DictGet(src, CONF_USERNAME,
            DictGet(ui, CONF_USERNAME,
                DictGet(per_cam, CONF_USERNAME, DEFAULT_CAMERA_USERNAME))),
     password |->
        DictGet(src, CONF_PASSWORD,
            DictGet(ui, CONF_PASSWORD, DEFAULT_FETCH_MY_KEY)),
     enc_key |->
        DictGet(src, CONF_ENC_KEY,
            DictGet(ui, CONF_ENC_KEY,
                DictGet(per_cam, CONF_ENC_KEY, DEFAULT_FETCH_MY_KEY))),
     rtsp_uses_verification_code |->
        DictGet(src, CONF_RTSP_USES_VERIFICATION_CODE,
            DictGet(ui, CONF_RTSP_USES_VERIFICATION_CODE,
                DictGet(per_cam, CONF_RTSP_USES_VERIFICATION_CODE, FALSE))),
     ffmpeg_arguments |->
        DictGet(src, CONF_FFMPEG_ARGUMENTS,
            DictGet(ui, CONF_FFMPEG_ARGUMENTS,
                DictGet(per_cam, CONF_FFMPEG_ARGUMENTS, DEFAULT_FFMPEG_ARGUMENTS))),
     ephemeral_test_rtsp |-> DictGet(ui, "ephemeral_test_rtsp", test_rtsp_default)]

\* async_step_camera_edit without user_input, or after an error: the form
\* with defaults pf = self._prefill or _make_prefill(per_cam, None)
ShowCameraEdit(f, options, errors) ==
    LET per_cam == PerCam(options, f.cam_serial)
        pf == IF DOMAIN f.prefill # {} THEN f.prefill
              ELSE _make_prefill(per_cam, EmptyDict, per_cam,
                       _infer_supports_rtsp_from_category(
                           CoordinatorData[f.cam_serial]))
    IN  [f EXCEPT !.step = "camera_edit", !.errors = errors,
                  !.defaults =
                      [k \in {CONF_USERNAME, CONF_PASSWORD, CONF_ENC_KEY,
                               CONF_RTSP_USES_VERIFICATION_CODE,
                               CONF_FFMPEG_ARGUMENTS, "ephemeral_test_rtsp"} |->
                          pf[k]]]

\* the resolved dict stored as it is
CameraRecord_resolved_dict(resolved, per_cam) == resolved

\* the per-camera record written on success (lines 566-579, 667-678)
CameraRecord(resolved, per_cam) ==
    [username |-> resolved[CONF_USERNAME],
     password |-> resolved[CONF_PASSWORD],
     enc_key |-> resolved[CONF_ENC_KEY],
     rtsp_uses_verification_code |-> resolved[CONF_RTSP_USES_VERIFICATION_CODE],
     ffmpeg_arguments |->
        DictGet(resolved, CONF_FFMPEG_ARGUMENTS,
            DictGet(per_cam, CONF_FFMPEG_ARGUMENTS, DEFAULT_FFMPEG_ARGUMENTS))]

\* new_opts: the options with the record of the serial replaced
OptionsWithCamera(options, serial, record) ==
    LET cams_old == DictGet(options, OPTIONS_KEY_CAMERAS, EmptyDict)
        cams_new == [s \in DOMAIN cams_old \cup {serial} |->
                        IF s = serial THEN record ELSE cams_old[s]]
    IN  DictMerge(options, [cameras |-> cams_new])

\* a finished options flow: the handler is discarded
FinishedOptionsFlow(f, result, reason) ==
    [NewOptionsFlow EXCEPT !.step = result, !.errors = reason]

\* the error shown for an exception of _test_rtsp_credentials
CameraError(raised) ==
    CASE raised = "EzvizAuthVerificationCode" -> "verification_required"
      [] raised = "AuthTestResultFailed" -> "rtsp_auth_failed"
      [] raised = "DeviceException" -> "device_exception"
      [] raised = "PyEzvizError" -> "cannot_connect"
      [] raised = "Exception" -> "unknown"

\* an options flow is opened on the entry: the menu, with the coordinator
\* looked up in hass.data (KeyError where the entry has no runtime data)
async_step_init ==
    /\ runtimeData
    /\ opt.step = "none"
    /\ opt' = [NewOptionsFlow EXCEPT !.step = "init"]
    /\ res' = NoRun
    /\ UNCHANGED <<entryExists, entryData, entryOptions, runtimeData, inflight,
                   resp, setupState, reauthRaised, uf, rf, poller, entries,
                   migration, legacyCams, hostCall, mqtt>>

CloudOptions_timeout_only(opts, user_input) ==
    [timeout |-> user_input[CONF_TIMEOUT]]

\* opts = dict(self.config_entry.options); opts[CONF_TIMEOUT] = user_input[...]
CloudOptions(opts, user_input) ==
    DictMerge(opts, [timeout |-> user_input[CONF_TIMEOUT]])

\* menu option "cloud", and the submission of its form (lines 447-463)
async_step_cloud ==
    /\ opt.step \in {"init", "cloud"}
    /\ res' = NoRun
    /\ UNCHANGED <<entryExists, entryData, runtimeData, inflight, resp,
                   setupState, reauthRaised, uf, rf, poller, entries, migration,
                   legacyCams, hostCall, mqtt>>
    /\ IF opt.step = "init"
       THEN /\ opt' = [opt EXCEPT !.step = "cloud"]
            /\ UNCHANGED entryOptions
       ELSE \E user_input \in [timeout : Timeouts] :
               /\ entryOptions' = CloudOptions(entryOptions, user_input)
               /\ opt' = FinishedOptionsFlow(opt, "create_entry", "")

\* menu option "camera_select", and the submission of its form, which goes
\* on to show camera_edit (lines 467-494)
async_step_camera_select ==
    /\ opt.step \in {"init", "camera_select"}
    /\ res' = NoRun
    /\ UNCHANGED <<entryExists, entryData, entryOptions, runtimeData, inflight,
                   resp, setupState, reauthRaised, uf, rf, poller, entries,
                   migration, legacyCams, hostCall, mqtt>>
    /\ IF Cameras = {}
       THEN opt' = FinishedOptionsFlow(opt, "abort", "no_cameras")
       ELSE IF opt.step = "init"
       THEN opt' = [opt EXCEPT !.step = "camera_select"]
       ELSE \E serial \in Cameras :
               opt' = ShowCameraEdit([opt EXCEPT !.cam_serial = serial],
                                     entryOptions, "")

\* an exception re-raised without the data resolved so far
ErrData_none(run) == EmptyDict

\* getattr(err, "data", None)
ErrData(run) == IF run.has_data THEN run.data ELSE EmptyDict

\* the submission of camera_edit from payload on (lines 552-634), with the
\* options the handler read when it was called (base_opts, line 502)
CameraEditSubmitted(base_opts, user_input) ==
    LET per_cam == PerCam(base_opts, opt.cam_serial)
        cam_info == CoordinatorData[opt.cam_serial]
        test_rtsp_default == _infer_supports_rtsp_from_category(cam_info)
        payload == DictMerge(user_input,
                      [ip_address |-> cam_info["local_ip"],
                       cloud_account_username |-> Account,
                       serial |-> opt.cam_serial])
    IN  \E a \in AnswersFor(payload) :
        LET run == _test_rtsp_credentials("camera_edit", payload, a)
            \* a typed encryption key value starts the resolution anew
            f == [opt EXCEPT
                    !.submits = @ + 1,
                    !.enc_key_fetched =
                        \/ run.enc = "ok"
                        \/ @ /\ user_input[CONF_ENC_KEY]
                                    = opt.defaults[CONF_ENC_KEY]]
        IN  /\ res' = run
            /\ CASE run.raised = "none" ->
                      /\ entryOptions' =
                            OptionsWithCamera(base_opts, opt.cam_serial,
                                CameraRecord(run.data, per_cam))
                      /\ opt' = FinishedOptionsFlow(f, "create_entry", "")
                 [] run.raised = "EzvizAuthVerificationCode" ->
                      \* self._pending = payload, then camera_edit_2fa
                      \* without user_input shows its form
                      /\ opt' = [f EXCEPT
                            !.step = "camera_edit_2fa",
                            !.errors = "",
                            !.pending = run.data,
                            !.prefill = _make_prefill(user_input, EmptyDict,
                                            per_cam, test_rtsp_default)]
                      /\ UNCHANGED entryOptions
                 [] run.raised = "Exception" ->
                      /\ opt' = FinishedOptionsFlow(f, "abort", "unknown")
                      /\ UNCHANGED entryOptions
                 [] OTHER ->
                      /\ opt' = ShowCameraEdit(
                            [f EXCEPT !.prefill =
                                _make_prefill(ErrData(run), user_input,
                                              per_cam, test_rtsp_default)],
                            base_opts, CameraError(run.raised))
                      /\ UNCHANGED entryOptions

\* camera_edit is submitted and runs to its end with no other writer of the
\* entry options in between (lines 498-634)
async_step_camera_edit ==
    /\ opt.step = "camera_edit"
    /\ opt.submits < MaxSubmits
    /\ UNCHANGED <<entryExists, entryData, runtimeData, inflight, resp,
                   setupState, reauthRaised, uf, rf, poller, entries, migration,
                   legacyCams, hostCall, mqtt>>
    /\ \E user_input \in CameraInputs(opt.defaults) :
          CameraEditSubmitted(entryOptions, user_input)

\* camera_edit_2fa is submitted (lines 636-727)
async_step_camera_edit_2fa ==
    /\ opt.step = "camera_edit_2fa"
    /\ opt.submits < MaxSubmits
    /\ UNCHANGED <<entryExists, entryData, runtimeData, inflight, resp,
                   setupState, reauthRaised, uf, rf, poller, entries, migration,
                   legacyCams, hostCall, mqtt>>
    /\ IF DOMAIN opt.pending = {}
       THEN \* no pending payload: back to camera_edit
            /\ opt' = ShowCameraEdit(opt, entryOptions, "")
            /\ res' = NoRun
            /\ UNCHANGED entryOptions
       ELSE \E user_input \in [cam_verification_2fa_code : {"", "123456"}, cam_encryption_2fa_code : {"", "654321"}] :
            LET per_cam == PerCam(entryOptions, opt.cam_serial)
                cam_info == DictGet(CoordinatorData, opt.cam_serial, EmptyDict)
                inferred_ip == DictGet(cam_info, "local_ip", "")
                data == DictMerge(opt.pending,
                           [cam_verification_2fa_code |->
                                OrNone(user_input[CONF_CAM_VERIFICATION_2FA_CODE]),
                            cam_encryption_2fa_code |->
                                OrNone(user_input[CONF_CAM_ENC_2FA_CODE]),
                            ip_address |-> inferred_ip])
            IN  \E a \in AnswersFor(data) :
                LET run == _test_rtsp_credentials("camera_edit_2fa", data, a)
                    f == [opt EXCEPT !.submits = @ + 1,
                                     !.enc_key_fetched = @ \/ run.enc = "ok"]
                IN  /\ res' = run
                    /\ CASE run.raised = "none" ->
                              /\ entryOptions' =
                                    OptionsWithCamera(entryOptions, opt.cam_serial,
                                        CameraRecord(run.data, per_cam))
                              /\ opt' = FinishedOptionsFlow(f, "create_entry", "")
                         [] run.raised = "EzvizAuthVerificationCode" ->
                              \* still needs a code: the 2FA form again
                              /\ opt' = [f EXCEPT !.errors = "verification_required"]
                              /\ UNCHANGED entryOptions
                         [] run.raised = "Exception" ->
                              /\ opt' = FinishedOptionsFlow(f, "abort", "unknown")
                              /\ UNCHANGED entryOptions
                         [] OTHER ->
                              \* self._prefill = err.data, then camera_edit
                              \* without user_input shows its form
                              /\ opt' = ShowCameraEdit(
                                    [f EXCEPT !.prefill = ErrData(run)],
                                    entryOptions, "")
                              /\ UNCHANGED entryOptions

\* an entry that was set up: tokens stored, runtime objects attached
LoadedEntryData ==
    [type |-> ATTR_TYPE_CLOUD, session_id |-> "S1", rf_session_id |-> "R1",
     url |-> EU_URL, user_id |-> "U1"]

\* options as setup or an earlier options flow left them
LoadedEntryOptions ==
    { DefaultOptions,
      [timeout |-> DEFAULT_TIMEOUT,
       cameras |-> [D1 |-> [username |-> DEFAULT_CAMERA_USERNAME,
                            password |-> "VC0", enc_key |-> "K0",
                            rtsp_uses_verification_code |-> TRUE,
                            ffmpeg_arguments |-> "/Streaming/Channels/101"]]],
      [timeout |-> 10,
       cameras |-> [D2 |-> [username |-> DEFAULT_CAMERA_USERNAME,
                            password |-> FetchedVerificationCode,
                            enc_key |-> FetchedEncKey,
                            rtsp_uses_verification_code |-> FALSE,
                            ffmpeg_arguments |-> DEFAULT_FFMPEG_ARGUMENTS]]] }

\* the account entry is loaded and its coordinator is in hass.data
EntryLoaded ==
    /\ entryExists = TRUE
    /\ entryData = LoadedEntryData
    /\ runtimeData = TRUE
    /\ inflight = [r \in Requesters |-> NoCall]
    /\ resp = NoResp
    /\ setupState = [pc |-> "idle", result |-> "true", wrote |-> FALSE]
    /\ reauthRaised = FALSE
    /\ uf = NewUserFlow
    /\ rf = NewReauthFlow

OptionsInit ==
    /\ EntryLoaded
    /\ entryOptions \in LoadedEntryOptions
    /\ DeviceSideIdle

OptionsNext ==
    \/ async_step_init
    \/ async_step_cloud
    \/ async_step_camera_select
    \/ async_step_camera_edit
    \/ async_step_camera_edit_2fa

OptionsSpec == OptionsInit /\ [][OptionsNext]_vars

-----------------------------------------------------------------------------
(* coordinator.py and text.py: the poll and the encryption-key entity *)

\* the camera the coordinator polls, and its serial as characters
PolledSerialChars == <<"D", "1", "2", "3", "4", "5", "6", "7", "8">>

\* s[a:b] for a, b <= 0 counted from the end of s (b = 0 for an open end)
SliceFromEnd(s, a, b) ==
    LET lo == IF Len(s) + a < 0 THEN 1 ELSE Len(s) + a + 1
        hi == IF b = 0 THEN Len(s) ELSE Len(s) + b
    IN  IF hi < lo THEN <<>> ELSE SubSeq(s, lo, hi)

\* None where the code expects a MAC address or a hash
NoneSeq == <<>>

\* the loop over raw_data: the API's MAC address is kept, or replaced by
\* f"65:63:3A:{serial[-2:]}:{serial[-4:-2]}:{serial[-6:-4]}"
MacAddress(use_ezvizapi_mac, serial, api_mac) ==
    IF use_ezvizapi_mac THEN api_mac
    ELSE <<"65", "63", "3A", SliceFromEnd(serial, -2, 0),
           SliceFromEnd(serial, -4, -2), SliceFromEnd(serial, -6, -4)>>

\* pyezvizapi.utils.return_password_hash
return_password_hash(key) == <<"hash", key>>

\* the encryption keys a camera can have
EncKeys == {"K0", FetchedEncKey}

\* what load_cameras returns for the camera
RawCameraData ==
    [status : {1, 2},
     encrypted_pwd_hash : {return_password_hash(k) : k \in EncKeys},
     mac_address : {NoneSeq, <<"AA", "BB", "CC", "DD", "EE", "FF">>}]

\* every failed poll reported as a failed update
PollRaised_update_failed(answer) ==
    IF answer = "ok" THEN "none" ELSE "UpdateFailed"

\* the except clauses of _async_update_data: what leaves the method
PollRaised(answer) ==
    CASE answer = "ok" -> "none"
      [] answer \in {"token_expired", "verification_required"} ->
            "ConfigEntryAuthFailed"
      [] answer \in {"invalid_url", "http_error", "api_error"} ->
            "UpdateFailed"
      [] answer = "timeout" -> "TimeoutError"
      [] OTHER -> "Exception"

RestoredKeyText(key) ==
    [native_value |-> key, current_enc_key_hash |-> return_password_hash(key),
     mfa_enabled |-> TRUE]

\* the coordinator after its first refresh, with the camera's key entity
LoadedPollers ==
    { [NoPoll EXCEPT !.use_ezvizapi_mac = m,
                     !.data = [raw EXCEPT !.mac_address =
                                  MacAddress(m, PolledSerialChars, @)],
                     !.text = t] :
        m \in BOOLEAN,
        raw \in {r \in RawCameraData : r.status = 1},
        t \in {([native_value |-> NoneStr, current_enc_key_hash |-> NoneSeq,
                mfa_enabled |-> TRUE]), RestoredKeyText("K0")} }

\* _async_update_data, run by the coordinator's timer and by
\* async_request_refresh (number.py, select.py): load_cameras under the
\* timeout, MAC addresses rewritten, exceptions translated.  Home Assistant
\* starts the reauthentication on ConfigEntryAuthFailed
_async_update_data ==
    /\ runtimeData
    /\ poller.calls < MaxPolls
    /\ \E answer \in {"ok", "token_expired", "verification_required", "invalid_url", "http_error", "api_error", "timeout", "unexpected"}, raw \in RawCameraData :
        /\ answer # "ok" => raw = poller.data
        /\ poller' =
              [poller EXCEPT
                  !.calls = @ + 1,
                  !.by = "_async_update_data",
                  !.answer = answer,
                  !.raised = PollRaised(answer),
                  !.data = IF answer = "ok"
                           THEN [raw EXCEPT !.mac_address =
                                    MacAddress(poller.use_ezvizapi_mac,
                                               PolledSerialChars, @)]
                           ELSE @]
        /\ reauthRaised' =
              (reauthRaised \/ PollRaised(answer) = "ConfigEntryAuthFailed")
    /\ UNCHANGED <<entryExists, entryData, entryOptions, runtimeData, inflight,
                   resp, setupState, uf, rf, opt, res, entries, migration,
                   legacyCams, hostCall, mqtt>>

\* the entity fetches whenever it holds no key hash or one that differs from
\* the polled one
KeyFetchWanted_without_mfa(text, data) ==
    \/ text.current_enc_key_hash = NoneSeq
    \/ text.current_enc_key_hash # data.encrypted_pwd_hash

\* the entity fetches when MFA is taken as enabled and it holds no key hash
\* or one that differs from the polled one
KeyFetchWanted(text, data) ==
    /\ text.mfa_enabled
    /\ \/ text.current_enc_key_hash = NoneSeq
       \/ text.current_enc_key_hash # data.encrypted_pwd_hash

\* _is_device_online
_is_device_online(data) == data.status # 2

\* _persist_key_to_options: the camera's enc_key replaced in a copy of the
\* entry options
_persist_key_to_options(options, serial, key) ==
    LET cameras == DictGet(options, "cameras", EmptyDict)
        cam_opts == DictMerge(DictGet(cameras, serial, EmptyDict),
                              [enc_key |-> key])
    IN  DictMerge(options,
                  [cameras |-> DictMerge(cameras,
                                         [s \in {serial} |-> cam_opts])])

\* EzvizEncryptionKeyText.async_update, run by the entity platform every
\* SCAN_INTERVAL
async_update ==
    /\ runtimeData
    /\ poller.calls < MaxPolls
    /\ IF ~KeyFetchWanted(poller.text, poller.data)
          \/ ~_is_device_online(poller.data)
       THEN /\ poller' = [poller EXCEPT !.by = "async_update",
                                        !.answer = "none", !.raised = "none"]
            /\ UNCHANGED entryOptions
       ELSE \E answer \in {"ok", "verification_required", "token_expired", "api_error", "unexpected"}, key \in EncKeys :
            /\ answer # "ok" => key = FetchedEncKey
            /\ poller' =
                  [poller EXCEPT
                      !.calls = @ + 1,
                      !.by = "async_update",
                      !.answer = answer,
                      !.raised =
                          CASE answer = "ok" -> "none"
                            [] answer = "unexpected" -> "Exception"
                            [] OTHER -> "HomeAssistantError",
                      !.text =
                          CASE answer = "ok" -> RestoredKeyText(key)
                            [] answer = "verification_required" ->
                                  [@ EXCEPT !.mfa_enabled = FALSE]
                            [] OTHER -> @]
            /\ entryOptions' =
                  IF answer = "ok"
                  THEN _persist_key_to_options(entryOptions, "D1", key)
                  ELSE entryOptions
    /\ UNCHANGED <<entryExists, entryData, runtimeData, inflight, resp,
                   setupState, reauthRaised, uf, rf, opt, res, entries,
                   migration, legacyCams, hostCall, mqtt>>

\* EzvizEncryptionKeyText.set_value.  The method is synchronous and calls
\* the blocking set_video_enc itself, so the entity platform runs it in a
\* worker thread; its last statement, _persist_key_to_options, ends in
\* hass.config_entries.async_update_entry, an event-loop call made from that
\* thread without synchronisation: the write is applied, or the config
\* entries' thread check raises RuntimeError and nothing is written
set_value ==
    /\ runtimeData
    /\ poller.calls < MaxPolls
    /\ \E value \in EncKeys, answer \in {"ok", "http_error", "api_error", "unexpected"}, applied \in BOOLEAN :
        /\ answer # "ok" => (value = FetchedEncKey /\ applied)
        /\ poller' =
              [poller EXCEPT
                  !.calls = @ + 1,
                  !.by = "set_value",
                  !.answer = answer,
                  !.raised =
                      CASE answer = "ok" /\ applied -> "none"
                        [] answer = "ok" -> "RuntimeError"
                        [] answer = "unexpected" -> "Exception"
                        [] OTHER -> "HomeAssistantError",
                  !.text =
                      IF answer = "ok"
                      THEN [@ EXCEPT
                               !.native_value = value,
                               !.current_enc_key_hash =
                                   return_password_hash(value)]
                      ELSE @]
        /\ entryOptions' =
              IF answer = "ok" /\ applied
              THEN _persist_key_to_options(entryOptions, "D1", value)
              ELSE entryOptions
    /\ UNCHANGED <<entryExists, entryData, runtimeData, inflight, resp,
                   setupState, reauthRaised, uf, rf, opt, res, entries,
                   migration, legacyCams, hostCall, mqtt>>

PollInit ==
    /\ EntryLoaded
    /\ entryOptions \in LoadedEntryOptions
    /\ opt = NewOptionsFlow
    /\ res = NoRun
    /\ poller \in LoadedPollers
    /\ entries = EmptyDict
    /\ migration = NoMigration
    /\ legacyCams = NoLegacyPlatform
    /\ hostCall = NoHostCall
    /\ mqtt = NoMqtt

PollNext ==
    \/ _async_update_data
    \/ async_update
    \/ set_value

PollSpec == PollInit /\ [][PollNext]_vars

-----------------------------------------------------------------------------
(* An options flow and the encryption-key entity writing the entry options *)

\* submissions of camera_edit while the key entity runs
MaxEdits == 1

\* async_step_camera_edit up to the first call _test_rtsp_credentials awaits:
\* the handler is suspended holding the options it read (base_opts) and the
\* submission; a submission that needs no call runs to its end at once
camera_edit_begin ==
    /\ opt.step = "camera_edit"
    /\ opt.submits < MaxEdits
    /\ "base_opts" \notin DOMAIN res
    /\ UNCHANGED <<entryExists, entryData, runtimeData, inflight, resp,
                   setupState, reauthRaised, uf, rf, poller, entries, migration,
                   legacyCams, hostCall, mqtt>>
    /\ \E user_input \in CameraInputs(opt.defaults) :
          IF \/ NeedsFetch(user_input, CONF_ENC_KEY)
             \/ NeedsFetch(user_input, CONF_PASSWORD)
             \/ ProbeRequested(user_input)
          THEN /\ res' = [ran |-> FALSE, base_opts |-> entryOptions,
                          user_input |-> user_input]
               /\ UNCHANGED <<opt, entryOptions>>
          ELSE CameraEditSubmitted(entryOptions, user_input)

\* the awaited calls of _test_rtsp_credentials are answered and the handler
\* goes on with the options it read before them
camera_edit_resume ==
    /\ opt.step = "camera_edit"
    /\ "base_opts" \in DOMAIN res
    /\ UNCHANGED <<entryExists, entryData, runtimeData, inflight, resp,
                   setupState, reauthRaised, uf, rf, poller, entries, migration,
                   legacyCams, hostCall, mqtt>>
    /\ CameraEditSubmitted(res.base_opts, res.user_input)

\* a loaded entry whose key entity of camera D1 holds no key yet
RaceInit ==
    /\ PollInit
    /\ poller.text.native_value = NoneStr
    /\ poller.use_ezvizapi_mac
    /\ poller.data.mac_address # NoneSeq

RaceNext ==
    \/ async_step_init
    \/ async_step_camera_select
    \/ camera_edit_begin
    \/ camera_edit_resume
    \/ async_update

RaceSpec == RaceInit /\ [][RaceNext]_vars

-----------------------------------------------------------------------------
(* __init__.py: async_migrate_entry *)

\* entry ids, in the order async_entries lists them
AccountEntryId == "account"

\* legacy per-camera entries: complete, with the defaults left out, and
\* without a serial
LegacyCameraEntries ==
    { [version |-> TARGET_VERSION - 1,
       data |-> [type |-> ATTR_TYPE_CAMERA, serial |-> s,
                 username |-> "operator", password |-> "VC2",
                 enc_key |-> "K2", rtsp_uses_verification_code |-> TRUE],
       options |-> [ffmpeg_arguments |-> "/Streaming/Channels/101"]] :
        s \in Cameras }
    \cup
    { [version |-> TARGET_VERSION - 1,
       data |-> [type |-> ATTR_TYPE_CAMERA, serial |-> s],
       options |-> EmptyDict] : s \in Cameras }
    \cup
    { [version |-> TARGET_VERSION - 1,
       data |-> [type |-> ATTR_TYPE_CAMERA, password |-> "VC2"],
       options |-> EmptyDict] }

\* the record without the fetch sentinel for what the legacy entry lacks
LegacyCameraRecord_blank(cam_entry) ==
    [username |-> DictGet(cam_entry.data, CONF_USERNAME,
                          DEFAULT_CAMERA_USERNAME),
     password |-> DictGet(cam_entry.data, CONF_PASSWORD, ""),
     enc_key |-> DictGet(cam_entry.data, CONF_ENC_KEY, ""),
     rtsp_uses_verification_code |->
        DictGet(cam_entry.data, CONF_RTSP_USES_VERIFICATION_CODE, FALSE),
     ffmpeg_arguments |-> DictGet(cam_entry.options, CONF_FFMPEG_ARGUMENTS,
                                  DEFAULT_FFMPEG_ARGUMENTS)]

\* the record cameras_map[serial] is given for a legacy camera entry
LegacyCameraRecord(cam_entry) ==
    [username |-> DictGet(cam_entry.data, CONF_USERNAME,
                          DEFAULT_CAMERA_USERNAME),
     password |-> DictGet(cam_entry.data, CONF_PASSWORD, FETCH),
     enc_key |-> DictGet(cam_entry.data, CONF_ENC_KEY, FETCH),
     rtsp_uses_verification_code |->
        DictGet(cam_entry.data, CONF_RTSP_USES_VERIFICATION_CODE, FALSE),
     ffmpeg_arguments |-> DictGet(cam_entry.options, CONF_FFMPEG_ARGUMENTS,
                                  DEFAULT_FFMPEG_ARGUMENTS)]

\* e for e in async_entries(domain) if e.entry_id != entry_id and its type
\* is ATTR_TYPE_CAMERA, as a list of entry ids
legacy_cam_entries(all, entry_id) ==
    SelectSeq(<<AccountEntryId, "cam1", "cam2">>,
              LAMBDA id : /\ id \in DOMAIN all
                          /\ id # entry_id
                          /\ DictGet(all[id].data, CONF_TYPE, NoneStr)
                                = ATTR_TYPE_CAMERA)

RECURSIVE Consolidate_overwriting(_, _, _)
RECURSIVE Consolidate(_, _, _)

\* the consolidation taking the legacy record where the serial is known
Consolidate_overwriting(all, ids, cameras_map) ==
    IF ids = <<>>
    THEN [raised |-> "none", serial |-> NoneStr, cameras_map |-> cameras_map]
    ELSE LET cam_entry == all[Head(ids)]
         IN  IF ATTR_SERIAL \notin DOMAIN cam_entry.data
             THEN [raised |-> "KeyError", serial |-> NoneStr,
                   cameras_map |-> cameras_map]
             ELSE LET serial == cam_entry.data[ATTR_SERIAL]
                  IN  Consolidate_overwriting(all, Tail(ids),
                          DictMerge(cameras_map,
                              [s \in {serial} |->
                                  LegacyCameraRecord(cam_entry)]))

\* the loop over legacy_cam_entries: KeyError for a missing serial,
\* ValueError for a serial already in cameras_map, else the record is added
Consolidate(all, ids, cameras_map) ==
    IF ids = <<>>
    THEN [raised |-> "none", serial |-> NoneStr, cameras_map |-> cameras_map]
    ELSE LET cam_entry == all[Head(ids)]
         IN  IF ATTR_SERIAL \notin DOMAIN cam_entry.data
             THEN [raised |-> "KeyError", serial |-> NoneStr,
                   cameras_map |-> cameras_map]
             ELSE LET serial == cam_entry.data[ATTR_SERIAL]
                  IN  IF serial \in DOMAIN cameras_map
                      THEN [raised |-> "ValueError", serial |-> serial,
                            cameras_map |-> cameras_map]
                      ELSE Consolidate(all, Tail(ids),
                              DictMerge(cameras_map,
                                  [s \in {serial} |->
                                      LegacyCameraRecord(cam_entry)]))

\* async_migrate_entry(hass, entry) for any entry of the domain
async_migrate_entry ==
    \E entry_id \in DOMAIN entries :
        LET entry == entries[entry_id]
            etype == DictGet(entry.data, CONF_TYPE, NoneStr)
            prev_opts == entry.options
            legacy == legacy_cam_entries(entries, entry_id)
            merged == Consolidate(entries, legacy,
                          DictGet(prev_opts, OPTIONS_KEY_CAMERAS, EmptyDict))
            new_options ==
                [timeout |-> DictGet(prev_opts, CONF_TIMEOUT, DEFAULT_TIMEOUT),
                 cameras |-> merged.cameras_map]
            \* the writes of a run that reached line 232, in their order
            writes == <<"async_update_entry">>
                      \o [i \in 1..Len(legacy) |-> "async_remove"]
            done(result, serial) ==
                [ran |-> TRUE, entry_id |-> entry_id, result |-> result,
                 serial |-> serial,
                 calls |-> IF /\ result = "true"
                              /\ entry.version < TARGET_VERSION
                              /\ etype = ATTR_TYPE_CLOUD
                           THEN writes ELSE <<>>]
        IN  /\ IF entry.version >= TARGET_VERSION \/ etype # ATTR_TYPE_CLOUD
               THEN /\ migration' = done("true", NoneStr)
                    /\ UNCHANGED <<entries, entryOptions>>
               ELSE IF merged.raised # "none"
               THEN /\ migration' = done(merged.raised, merged.serial)
                    /\ UNCHANGED <<entries, entryOptions>>
               ELSE /\ migration' = done("true", NoneStr)
                    /\ entries' =
                          [id \in DOMAIN entries \ {legacy[i] : i \in 1..Len(legacy)} |->
                              IF id = entry_id
                              THEN [entry EXCEPT !.options = new_options,
                                                 !.version = TARGET_VERSION]
                              ELSE entries[id]]
                    /\ entryOptions' = IF entry_id = AccountEntryId
                                       THEN new_options ELSE entryOptions
            /\ UNCHANGED <<entryExists, entryData, runtimeData, inflight,
                           resp, setupState, reauthRaised, uf, rf, opt, res,
                           poller, legacyCams, hostCall, mqtt>>

MigrateInit ==
    /\ entries \in ({ [id \in {AccountEntryId} \cup DOMAIN others |->
            IF id = AccountEntryId
            THEN [version |-> v, data |-> LoadedEntryData, options |-> o]
            ELSE others[id]] :
            v \in {TARGET_VERSION - 1, TARGET_VERSION},
            o \in ({EmptyDict} \cup LoadedEntryOptions),
            others \in
            {EmptyDict}
            \cup [{"cam1"} -> LegacyCameraEntries]
            \cup [{"cam1", "cam2"} ->
            LegacyCameraEntries \cup {[version |-> TARGET_VERSION - 1, data |-> [serial |-> "D2"], options |-> EmptyDict]}] })
    /\ entryExists = TRUE
    /\ entryData = entries[AccountEntryId].data
    /\ entryOptions = entries[AccountEntryId].options
    /\ runtimeData = FALSE
    /\ inflight = [r \in Requesters |-> NoCall]
    /\ resp = NoResp
    /\ setupState = [pc |-> "idle", result |-> "none", wrote |-> FALSE]
    /\ reauthRaised = FALSE
    /\ uf = NewUserFlow
    /\ rf = NewReauthFlow
    /\ opt = NewOptionsFlow
    /\ res = NoRun
    /\ poller = NoPoll
    /\ migration = NoMigration
    /\ legacyCams = NoLegacyPlatform
    /\ hostCall = NoHostCall
    /\ mqtt = NoMqtt

MigrateNext == async_migrate_entry

MigrateSpec == MigrateInit /\ [][MigrateNext]_vars

-----------------------------------------------------------------------------
(* __init__.py and mqtt.py: runtime data, the MQTT listener, unload *)

MaxMessages == 3

\* async_setup_entry: a legacy per-camera entry is accepted at once (lines
\* 82-84); for a cloud entry whose login succeeded and whose coordinator was
\* built, the handler is created and stored with the coordinator (lines
\* 141-148), and start is handed to the executor (line 151)
async_setup_entry_store ==
    /\ entryExists
    /\ setupState.pc = "idle"
    /\ setupState.result = "none"
    /\ IF entryData[CONF_TYPE] # ATTR_TYPE_CLOUD
       THEN /\ setupState' = [setupState EXCEPT !.result = "true"]
            /\ UNCHANGED <<runtimeData, mqtt>>
       ELSE /\ setupState' = [setupState EXCEPT !.pc = "mqtt_start"]
            /\ runtimeData' = TRUE
            /\ mqtt' = [mqtt EXCEPT !.listener = "created"]
    /\ UNCHANGED <<entryExists, entryData, entryOptions, inflight, resp,
                   reauthRaised, uf, rf, opt, res, poller, entries, migration,
                   legacyCams, hostCall>>

\* EzvizMqttHandler.start in the worker thread, line 32: self._mqtt.connect()
\* returns with the client's thread running, or raises and the exception
\* leaves async_setup_entry
start_connect ==
    /\ setupState.pc = "mqtt_start"
    /\ \E answer \in {"ok", "error"} :
        IF answer = "ok"
        THEN /\ mqtt' = [mqtt EXCEPT !.listener = "connected"]
             /\ setupState' = [setupState EXCEPT !.pc = "mqtt_bind"]
        ELSE /\ mqtt' = [mqtt EXCEPT !.listener = "failed"]
             /\ setupState' = [setupState EXCEPT !.pc = "idle",
                                                 !.result = "error"]
    /\ UNCHANGED <<entryExists, entryData, entryOptions, runtimeData, inflight,
                   resp, reauthRaised, uf, rf, opt, res, poller, entries,
                   migration, legacyCams, hostCall>>

\* EzvizMqttHandler.start in the worker thread, lines 33-35: self._coordinator
\* is assigned from hass.data
start_bind ==
    /\ setupState.pc = "mqtt_bind"
    /\ mqtt' = [mqtt EXCEPT !.coordinator = TRUE]
    /\ setupState' = [setupState EXCEPT !.pc = "forward"]
    /\ UNCHANGED <<entryExists, entryData, entryOptions, runtimeData, inflight,
                   resp, reauthRaised, uf, rf, opt, res, poller, entries,
                   migration, legacyCams, hostCall>>

\* async_setup_entry resumes on the event loop after start returned (lines
\* 153-161): the stop listener, the platforms, return True
async_setup_entry_forward ==
    /\ setupState.pc = "forward"
    /\ setupState' = [setupState EXCEPT !.pc = "idle", !.result = "true"]
    /\ UNCHANGED <<entryExists, entryData, entryOptions, runtimeData, inflight,
                   resp, reauthRaised, uf, rf, opt, res, poller, entries,
                   migration, legacyCams, hostCall, mqtt>>

\* EzvizMqttHandler._on_message in the MQTT client's thread: _handle is
\* scheduled on the event loop (line 75)
_on_message ==
    /\ mqtt.listener = "connected"
    /\ mqtt.scheduled + mqtt.merged + mqtt.failed < MaxMessages
    /\ mqtt' = [mqtt EXCEPT !.scheduled = @ + 1]
    /\ UNCHANGED <<entryExists, entryData, entryOptions, runtimeData, inflight,
                   resp, setupState, reauthRaised, uf, rf, opt, res, poller,
                   entries, migration, legacyCams, hostCall>>

\* _handle on the event loop (lines 46-72): self._coordinator.merge_mqtt_update,
\* an AttributeError where self._coordinator has not been assigned
_handle ==
    /\ mqtt.scheduled > 0
    /\ mqtt' = IF mqtt.coordinator
               THEN [mqtt EXCEPT !.scheduled = @ - 1, !.merged = @ + 1]
               ELSE [mqtt EXCEPT !.scheduled = @ - 1, !.failed = @ + 1]
    /\ UNCHANGED <<entryExists, entryData, entryOptions, runtimeData, inflight,
                   resp, setupState, reauthRaised, uf, rf, opt, res, poller,
                   entries, migration, legacyCams, hostCall>>

\* async_unload_entry on an entry whose setup returned True (lines 164-178):
\* the runtime data is looked up (KeyError where there is none), the listener
\* is stopped, the platforms are unloaded, the data is deleted if that worked
async_unload_entry ==
    /\ setupState.pc = "idle"
    /\ setupState.result = "true"
    /\ mqtt.unload.result = "none"
    /\ IF ~runtimeData
       THEN /\ mqtt' = [mqtt EXCEPT !.unload.result = "KeyError"]
            /\ UNCHANGED runtimeData
       ELSE \E unload_ok \in BOOLEAN :
            /\ mqtt' = [mqtt EXCEPT
                          !.listener = "stopped",
                          !.unload = [calls |-> <<"stop", "async_unload_platforms">>,
                                      result |-> IF unload_ok THEN "true"
                                                 ELSE "false"]]
            /\ runtimeData' = ~unload_ok
    /\ UNCHANGED <<entryExists, entryData, entryOptions, inflight, resp,
                   setupState, reauthRaised, uf, rf, opt, res, poller, entries,
                   migration, legacyCams, hostCall>>

\* a stored entry that has not been set up: the account entry, or a legacy
\* per-camera entry
RuntimeInit ==
    /\ entryExists = TRUE
    /\ entryData \in {LoadedEntryData,
                      [type |-> ATTR_TYPE_CAMERA, serial |-> "D1"]}
    /\ entryOptions \in LoadedEntryOptions
    /\ runtimeData = FALSE
    /\ inflight = [r \in Requesters |-> NoCall]
    /\ resp = NoResp
    /\ setupState = [pc |-> "idle", result |-> "none", wrote |-> FALSE]
    /\ reauthRaised = FALSE
    /\ uf = NewUserFlow
    /\ rf = NewReauthFlow
    /\ DeviceSideIdle

RuntimeNext ==
    \/ async_setup_entry_store
    \/ start_connect
    \/ start_bind
    \/ async_setup_entry_forward
    \/ _on_message
    \/ _handle
    \/ async_unload_entry

RuntimeSpec == RuntimeInit /\ [][RuntimeNext]_vars

-----------------------------------------------------------------------------
(* config_flow.py: reauthentication with several account entries *)

\* the loop of async_step_reauth (lines 318-322): the entry it ends with is
\* the last cloud entry _async_current_entries lists, None without one
_reauth_entry(all) ==
    LET cloud == SelectSeq(<<AccountEntryId, "account2", "cam1">>,
                     LAMBDA id : /\ id \in DOMAIN all
                                 /\ DictGet(all[id].data, CONF_TYPE, NoneStr)
                                       = ATTR_TYPE_CLOUD)
    IN  IF cloud = <<>> THEN NoneStr ELSE cloud[Len(cloud)]

\* Home Assistant starts the reauthentication flow for the cloud entry whose
\* setup raised ConfigEntryAuthFailed (context entry_id); async_step_reauth
\* picks its entry and shows reauth_confirm (lines 314-328)
async_step_reauth_started ==
    /\ rf.step = "none"
    /\ \E entry_id \in DOMAIN entries :
        /\ DictGet(entries[entry_id].data, CONF_TYPE, NoneStr) = ATTR_TYPE_CLOUD
        /\ rf' = [step |-> "reauth_confirm", errors |-> "", submits |-> 0,
                  entry_id |-> entry_id,
                  reauth_entry |-> _reauth_entry(entries)]
    /\ UNCHANGED <<entryExists, entryData, entryOptions, runtimeData, inflight,
                   resp, setupState, reauthRaised, uf, opt, res, poller,
                   entries, migration, legacyCams, hostCall, mqtt>>

\* reauth_confirm is submitted and client.login answers (lines 330-381)
async_step_reauth_confirm ==
    /\ rf.step = "reauth_confirm"
    /\ rf.submits < MaxSubmits
    /\ \E a \in LoginAnswers :
        CASE a.kind = "ok" ->
               /\ entries' = [entries EXCEPT ![rf.reauth_entry].data =
                                 ReauthData(@, a.token)]
               /\ rf' = [rf EXCEPT !.step = "done",
                                   !.errors = "reauth_successful"]
          [] a.kind = "verification_required" ->
               /\ rf' = [rf EXCEPT !.step = "reauth_mfa", !.errors = "",
                                   !.submits = @ + 1]
               /\ UNCHANGED entries
          [] OTHER ->
               /\ rf' = [rf EXCEPT !.errors = FlowError(a.kind),
                                   !.submits = @ + 1]
               /\ UNCHANGED entries
    /\ UNCHANGED <<entryExists, entryData, entryOptions, runtimeData, inflight,
                   resp, setupState, reauthRaised, uf, opt, res, poller,
                   migration, legacyCams, hostCall, mqtt>>

\* reauth_mfa is submitted and client.login answers (lines 383-419)
async_step_reauth_mfa ==
    /\ rf.step = "reauth_mfa"
    /\ rf.submits < MaxSubmits
    /\ \E a \in LoginAnswers :
        IF a.kind = "ok"
        THEN /\ entries' = [entries EXCEPT ![rf.reauth_entry].data =
                               ReauthData(@, a.token)]
             /\ rf' = [rf EXCEPT !.step = "done",
                                 !.errors = "reauth_successful"]
        ELSE /\ rf' = [rf EXCEPT !.errors =
                          IF a.kind = "verification_required"
                          THEN "verification_required" ELSE FlowError(a.kind),
                                 !.submits = @ + 1]
             /\ UNCHANGED entries
    /\ UNCHANGED <<entryExists, entryData, entryOptions, runtimeData, inflight,
                   resp, setupState, reauthRaised, uf, opt, res, poller,
                   migration, legacyCams, hostCall, mqtt>>

\* one or two account entries and possibly a legacy camera entry, all stored
AccountsInit ==
    /\ entries \in
          { [id \in ids |->
                CASE id = AccountEntryId ->
                       [version |-> TARGET_VERSION, data |-> LoadedEntryData,
                        options |-> DefaultOptions]
                  [] id = "account2" ->
                       [version |-> TARGET_VERSION,
                        data |-> [LoadedEntryData EXCEPT
                                     !.session_id = "S2", !.rf_session_id = "R2",
                                     !.user_id = "U2"],
                        options |-> DefaultOptions]
                  [] id = "cam1" ->
                       [version |-> TARGET_VERSION - 1,
                        data |-> [type |-> ATTR_TYPE_CAMERA, serial |-> "D1"],
                        options |-> EmptyDict]] :
              ids \in {{AccountEntryId}, {AccountEntryId, "account2"},
                       {AccountEntryId, "cam1"},
                       {AccountEntryId, "account2", "cam1"}} }
    /\ entryExists = TRUE
    /\ entryData = entries[AccountEntryId].data
    /\ entryOptions = entries[AccountEntryId].options
    /\ runtimeData = FALSE
    /\ inflight = [r \in Requesters |-> NoCall]
    /\ resp = NoResp
    /\ setupState = [pc |-> "idle", result |-> "auth_failed", wrote |-> FALSE]
    /\ reauthRaised = TRUE
    /\ uf = NewUserFlow
    /\ rf = NewReauthFlow
    /\ opt = NewOptionsFlow
    /\ res = NoRun
    /\ poller = NoPoll
    /\ migration = NoMigration
    /\ legacyCams = NoLegacyPlatform
    /\ hostCall = NoHostCall
    /\ mqtt = NoMqtt

AccountsNext ==
    \/ async_step_reauth_started
    \/ async_step_reauth_confirm
    \/ async_step_reauth_mfa

AccountsSpec == AccountsInit /\ [][AccountsNext]_vars

-----------------------------------------------------------------------------
(* _normalize_api_host over arbitrary input strings *)

MaxTokens == 3

RECURSIVE Concat(_)
Concat(pieces) ==
    IF pieces = <<>> THEN <<>> ELSE Head(pieces) \o Concat(Tail(pieces))

\* host = _normalize_api_host(value)
NormalizeCall ==
    /\ ~hostCall.done
    /\ hostCall' = [hostCall EXCEPT !.done = TRUE,
                                    !.host = _normalize_api_host(hostCall.value)]
    /\ UNCHANGED <<entryExists, entryData, entryOptions, runtimeData, inflight,
                   resp, setupState, reauthRaised, uf, rf, opt, res, poller,
                   entries, migration, legacyCams, mqtt>>

HostInit ==
    /\ entryExists = FALSE
    /\ entryData = NoEntryData
    /\ entryOptions = EmptyDict
    /\ runtimeData = FALSE
    /\ inflight = [r \in Requesters |-> NoCall]
    /\ resp = NoResp
    /\ setupState = [pc |-> "idle", result |-> "none", wrote |-> FALSE]
    /\ reauthRaised = FALSE
    /\ uf = NewUserFlow
    /\ rf = NewReauthFlow
    /\ opt = NewOptionsFlow
    /\ res = NoRun
    /\ poller = NoPoll
    /\ entries = EmptyDict
    /\ migration = NoMigration
    /\ legacyCams = NoLegacyPlatform
    /\ hostCall \in [value : ({Concat(pieces) : pieces \in UNION {[1..n -> {<<" ">>, <<"/">>, <<"a">>, HTTP_PREFIX, HTTPS_PREFIX}] : n \in 0..MaxTokens}}), done : {FALSE}, host : {<<>>}]
    /\ mqtt = NoMqtt

HostNext == NormalizeCall

HostSpec == HostInit /\ [][HostNext]_vars

-----------------------------------------------------------------------------
(* ha-ezviz/camera.py: the camera platform configured in configuration.yaml *)

\* f"rtsp://{username}:{password}@{local_ip}:{local_rtsp_port}"
RtspUrl(username, password, local_ip, local_rtsp_port) ==
    <<"rtsp://", username, ":", password, "@", local_ip, ":", local_rtsp_port>>

\* a log record: the message with its serial and stream URL arguments
LogRecord(level, msg, serial, url) ==
    [level |-> level, msg |-> msg, serial |-> serial, url |-> url]

\* setup_platform builds one camera: the stream URL of a configured camera,
\* with the reported port unless that is 0, and the record it logs
SetupCamera(conf_cameras, serial, api) ==
    LET local_rtsp_port == IF api.local_rtsp_port # "0"
                           THEN api.local_rtsp_port ELSE "554"
        configured == serial \in DOMAIN conf_cameras
        username == IF configured THEN conf_cameras[serial].username
                    ELSE DEFAULT_CAMERA_USERNAME
        password == IF configured THEN conf_cameras[serial].password ELSE ""
        rtsp_stream == IF configured
                       THEN RtspUrl(username, password,
                                    CoordinatorData[serial]["local_ip"],
                                    local_rtsp_port)
                       ELSE <<>>
    IN  [camera |-> [username |-> username, password |-> password,
                     rtsp_stream |-> rtsp_stream,
                     local_ip |-> CoordinatorData[serial]["local_ip"],
                     local_rtsp_port |-> api.local_rtsp_port],
         logged |-> IF configured
                    THEN LogRecord("debug", "Camera %s source stream: %s",
                                   serial, rtsp_stream)
                    ELSE LogRecord("info",
                             "Found camera with serial %s without configuration",
                             serial, <<>>)]

\* setup_platform(hass, config, add_entities): login, load_cameras, one
\* HassEzvizCamera per camera
setup_platform ==
    /\ legacyCams.state = "none"
    /\ \E conf_cameras \in (UNION { [S -> [username : {DEFAULT_CAMERA_USERNAME, "operator"},
            password : {"VC0", FetchedVerificationCode}]] : S \in SUBSET Cameras }), answer \in {"ok", "api_error"},
          cameras \in ([Cameras -> [local_rtsp_port : {"0", "8554"}]]) :
        IF answer = "ok"
        THEN legacyCams' =
                [state |-> "loaded",
                 conf_cameras |-> conf_cameras,
                 cameras |-> [s \in Cameras |->
                                SetupCamera(conf_cameras, s, cameras[s]).camera],
                 log |-> {SetupCamera(conf_cameras, s, cameras[s]).logged :
                             s \in Cameras}]
        ELSE /\ conf_cameras = EmptyDict
             /\ cameras = [s \in Cameras |-> [local_rtsp_port |-> "0"]]
             /\ legacyCams' =
                   [NoLegacyPlatform EXCEPT
                       !.state = "failed",
                       !.log = {LogRecord("error", "PyEzvizError", "", <<>>)}]
    /\ UNCHANGED <<entryExists, entryData, entryOptions, runtimeData, inflight,
                   resp, setupState, reauthRaised, uf, rf, opt, res, poller,
                   entries, migration, hostCall, mqtt>>

\* HassEzvizCamera.stream_source: the URL built from the stored credentials
\* when the camera reports a local RTSP port
stream_source ==
    /\ legacyCams.state = "loaded"
    /\ \E serial \in DOMAIN legacyCams.cameras :
        LET cam == legacyCams.cameras[serial]
            rtsp_stream_source ==
                RtspUrl(cam.username, cam.password, cam.local_ip,
                        cam.local_rtsp_port)
        IN  /\ cam.local_rtsp_port # "0"
            /\ legacyCams' =
                  [legacyCams EXCEPT
                      !.cameras[serial].rtsp_stream = rtsp_stream_source,
                      !.log = @ \cup {LogRecord("debug",
                                         "Camera %s source stream: %s",
                                         serial, rtsp_stream_source)}]
    /\ UNCHANGED <<entryExists, entryData, entryOptions, runtimeData, inflight,
                   resp, setupState, reauthRaised, uf, rf, opt, res, poller,
                   entries, migration, hostCall, mqtt>>

StreamInit ==
    /\ entryExists = FALSE
    /\ entryData = NoEntryData
    /\ entryOptions = EmptyDict
    /\ runtimeData = FALSE
    /\ inflight = [r \in Requesters |-> NoCall]
    /\ resp = NoResp
    /\ setupState = [pc |-> "idle", result |-> "none", wrote |-> FALSE]
    /\ reauthRaised = FALSE
    /\ uf = NewUserFlow
    /\ rf = NewReauthFlow
    /\ DeviceSideIdle

StreamNext ==
    \/ setup_platform
    \/ stream_source

StreamSpec == StreamInit /\ [][StreamNext]_vars

-----------------------------------------------------------------------------
(* Session lifecycle: single flight, validation at setup, token rotation *)

\* C1: for the account, at most one client.login call is in flight at any
\* time, whichever of setup, user login and reauth login requested it
C1_SingleFlight == Cardinality(InFlight) <= 1

\* the login of the last finished setup returned a token: that run went on
\* to the coordinator construction
LastSetupLoginSucceeded == setupState.result = "type_error"

SetupReceivesToken ==
    /\ setupState.pc = "login"
    /\ setupState'.pc = "idle"
    /\ resp'.to = "setup"
    /\ resp'.kind = "ok"

\* C3: a setup login that returns the stored session_id and the stored
\* rf_session_id writes nothing to the entry data
C3_RotationSuppression ==
    [][(/\ SetupReceivesToken
        /\ resp'.token["session_id"] = entryData["session_id"]
        /\ resp'.token["rf_session_id"] = entryData["rf_session_id"])
       => (~setupState'.wrote /\ entryData' = entryData)]_vars

C3_Witness ==
    /\ resp.to = "setup"
    /\ resp.kind = "ok"
    /\ ~setupState.wrote
    /\ resp.token["session_id"] = entryData["session_id"]
    /\ resp.token["rf_session_id"] = entryData["rf_session_id"]
    /\ resp.token["session_id"] # ""

\* C4 as stated: setup writes the entry data iff some returned token differs
\* from the stored one and both returned tokens are non-empty
C4_WriteIffDiffersAndBothNonEmpty ==
    [][SetupReceivesToken =>
          (setupState'.wrote <=>
              /\ \/ resp'.token["session_id"] # entryData["session_id"]
                 \/ resp'.token["rf_session_id"] # entryData["rf_session_id"]
              /\ resp'.token["session_id"] # ""
              /\ resp'.token["rf_session_id"] # "")]_vars

\* C4 amended: setup writes the entry data iff the returned session_id is
\* non-empty and differs from the stored one, or the returned rf_session_id
\* is non-empty and differs from the stored one; exactly those tokens are
\* replaced, the other fields stay
C4_WriteIffSomeNonEmptyTokenDiffers ==
    [][SetupReceivesToken =>
          LET sidNew == /\ resp'.token["session_id"] # ""
                        /\ resp'.token["session_id"] # entryData["session_id"]
              rfNew == /\ resp'.token["rf_session_id"] # ""
                       /\ resp'.token["rf_session_id"] # entryData["rf_session_id"]
          IN  /\ setupState'.wrote <=> (sidNew \/ rfNew)
              /\ DOMAIN entryData' = DOMAIN entryData
              /\ entryData'["session_id"] =
                    IF sidNew THEN resp'.token["session_id"]
                              ELSE entryData["session_id"]
              /\ entryData'["rf_session_id"] =
                    IF rfNew THEN resp'.token["rf_session_id"]
                             ELSE entryData["rf_session_id"]
              /\ \A k \in DOMAIN entryData \ {"session_id", "rf_session_id"} :
                    entryData'[k] = entryData[k]]_vars

\* one returned token empty, the other rotated: the rotated one is written
C4_Witness ==
    /\ resp.to = "setup"
    /\ resp.kind = "ok"
    /\ setupState.wrote
    /\ resp.token["session_id"] = ""
    /\ resp.token["rf_session_id"] = entryData["rf_session_id"]
    /\ entryData["session_id"] # ""

\* C5: in the entry data, session_id and rf_session_id are both present or
\* both absent
C5_AtomicPair ==
    ("session_id" \in DOMAIN entryData) <=> ("rf_session_id" \in DOMAIN entryData)

\* a legacy entry that a reauth gave its tokens
C5_Witness ==
    /\ rf.step = "done"
    /\ resp.to = "reauth"
    /\ "session_id" \in DOMAIN entryData
    /\ "rf_session_id" \in DOMAIN entryData
    /\ "user_id" \notin DOMAIN entryData

-----------------------------------------------------------------------------
(* Account creation and reauthentication *)

\* the step in which the account flow creates the entry
UserFlowCreatesEntry ==
    /\ uf.step \in {"user_login", "mfa_login"}
    /\ uf'.step = "create_entry"

\* the API host that the user's region/URL input selects
ChosenHost(user_input) ==
    IF user_input.region = "custom"
    THEN _normalize_api_host(user_input.url)
    ELSE REGION_URLS[user_input.region]

\* C6: the API host stored when the entry is created is the host selected by
\* the user's region/custom-URL input, whatever the login response holds, on
\* the direct path and on the MFA path
C6_HostFromUserInput ==
    [][UserFlowCreatesEntry =>
          /\ entryData'["url"] = ChosenHost(uf.user_input)
          /\ entryData'["url"] # <<>>]_vars

\* an MFA-path entry on a custom host, created from a response that reports
\* another host
C6_Witness ==
    /\ uf.step = "create_entry"
    /\ uf.pending_user_url = <<"a">>
    /\ resp.to = "user"
    /\ resp.kind = "ok"
    /\ resp.token["api_url"] = ROGUE_URL
    /\ entryData["url"] = <<"a">>

\* the step in which a reauth login succeeds
ReauthSucceeds ==
    /\ rf.step \in {"confirm_login", "mfa_login"}
    /\ rf'.step = "done"

C8_MfaRoundTrip ==
    [][/\ (uf.step = "user_login" /\ resp'.to = "user"
              /\ resp'.kind = "verification_required") =>
             /\ ~entryExists'
             /\ uf'.step = "user_mfa_confirm"
             /\ uf'.errors = ""
             /\ uf'.logins = uf.logins
             /\ ~inflight'["user"].active
       /\ (uf.step = "mfa_login" /\ resp'.to = "user" /\ resp'.kind = "ok") =>
             /\ ~entryExists
             /\ entryExists'
             /\ uf'.step = "create_entry"
             /\ entryData' =
                   [type |-> "EZVIZ_CLOUD_ACCOUNT",
                    session_id |-> resp'.token["session_id"],
                    rf_session_id |-> resp'.token["rf_session_id"],
                    user_id |-> resp'.token["username"],
                    url |-> ChosenHost(uf.user_input)]
             /\ entryOptions'["timeout"] = uf.user_input.timeout
             /\ uf'.logins = uf.logins
             /\ uf.submits = 2 => uf'.logins = 2
       /\ (uf'.step = "user_mfa_confirm" /\ uf'.submits = 1) => uf'.logins = 1
      ]_vars

\* the entry after user step, 'verification required', one code submission
C8_Witness ==
    /\ uf.step = "create_entry"
    /\ uf.logins = 2
    /\ uf.pending_user_url = entryData["url"]
    /\ uf.pending_user_timeout = 10
    /\ entryOptions["timeout"] = 10
    /\ resp.to = "user"
    /\ resp.kind = "ok"
    /\ resp.token["session_id"] = entryData["session_id"]
    /\ resp.token["username"] = entryData["user_id"]

\* the step in which a reauth step receives the answer of its login
ReauthLoginAnswered ==
    /\ rf.step \in {"confirm_login", "mfa_login"}
    /\ resp'.to = "reauth"

\* C9: a failed reauth login (verification required, connection/API error,
\* unexpected error) leaves the entry data unchanged, the flow open and the
\* reauthentication pending; a successful one replaces both tokens by those
\* of its response and completes the reauth; nothing else completes it
C9_ReauthClearedOnlyBySuccess ==
    [][/\ (ReauthLoginAnswered /\ resp'.kind # "ok") =>
             /\ entryData' = entryData
             /\ rf'.step \in {"reauth_confirm", "reauth_mfa"}
             /\ reauthRaised' = reauthRaised
       /\ (ReauthLoginAnswered /\ resp'.kind = "ok") =>
             /\ entryData'["session_id"] = resp'.token["session_id"]
             /\ entryData'["rf_session_id"] = resp'.token["rf_session_id"]
             /\ rf'.step = "done"
             /\ ~reauthRaised'
       /\ (rf.step # "none" /\ rf'.step \notin {rf.step, "reauth_confirm",
                                               "confirm_login", "reauth_mfa",
                                               "mfa_login"}) =>
             ReauthLoginAnswered /\ resp'.kind = "ok"
       /\ (reauthRaised /\ ~reauthRaised') =>
             ReauthLoginAnswered /\ resp'.kind = "ok"
      ]_vars

\* reauth_confirm shown again after a connection error, tokens as before
C9_Witness ==
    /\ rf.step = "reauth_confirm"
    /\ rf.errors = "cannot_connect"
    /\ rf.logins = 1
    /\ resp.to = "reauth"
    /\ resp.kind = "token_expired"
    /\ reauthRaised
    /\ entryExists
    /\ "session_id" \in DOMAIN entryData

\* the flow that a requester of flow logins belongs to
FlowOf(r, u, f) == IF r = "user" THEN u ELSE f

\* C10: a login call is submitted only by a form submission, one per
\* submission; a login with a one-time code answered 'verification required'
\* shows the MFA form again with error verification_required, and a
\* transport/API failure shows the form with cannot_connect, both without
\* another login call
C10_NoSilentRetry ==
    [][\A r \in {"user", "reauth"} :
          LET f == FlowOf(r, uf, rf)
              g == FlowOf(r, uf', rf')
          IN  /\ g.logins > f.logins =>
                    /\ g.logins = f.logins + 1
                    /\ g.submits = f.submits + 1
                    /\ ~inflight[r].active
                    /\ inflight'[r].active
              /\ (resp'.to = r /\ resp'.kind # "none") =>
                    /\ ~inflight'[r].active
                    /\ g.logins <= f.logins
              /\ (f.step = "mfa_login" /\ resp'.to = r
                     /\ resp'.kind = "verification_required") =>
                    /\ g.step = IF r = "user" THEN "user_mfa_confirm"
                                               ELSE "reauth_mfa"
                    /\ g.errors = "verification_required"
              /\ (resp'.to = r /\ resp'.kind \in {"token_expired", "api_error"}) =>
                    /\ g.errors = "cannot_connect"
                    /\ g.step \in {"user", "user_mfa_confirm",
                                   "reauth_confirm", "reauth_mfa"}]_vars

\* the one-time code of the account flow was rejected: the MFA form is shown
\* again and no call is in flight
C10_Witness ==
    /\ uf.step = "user_mfa_confirm"
    /\ uf.errors = "verification_required"
    /\ uf.logins = 2
    /\ uf.submits = 2
    /\ resp.to = "user"
    /\ resp.kind = "verification_required"
    /\ ~inflight["user"].active

-----------------------------------------------------------------------------
(* Rejection of an invalid custom host *)

\* C11: a submission of the user form whose region is 'custom' and whose
\* custom URL normalizes to the empty string shows the user form again with
\* error invalid_url, builds no client, submits no login call and creates no
\* entry; a submission that does submit a login call carries a non-empty
\* host, the one the input selects
C11_InvalidHostRejected ==
    [][(uf.step = "user" /\ uf'.submits = uf.submits + 1 /\ ~entryExists) =>
          /\ uf'.step = "user_login" =>
                LET ui == uf'.user_input
                    host == IF ui.region = "custom"
                            THEN _normalize_api_host(DictGet(ui, "url", <<>>))
                            ELSE REGION_URLS[ui.region]
                IN  /\ host # <<>>
                    /\ inflight'["user"].active
                    /\ inflight'["user"].url = host
          /\ uf'.step # "user_login" =>
                /\ uf'.step = "user"
                /\ uf'.errors = "invalid_url"
                /\ uf'.logins = uf.logins
                /\ ~inflight'["user"].active
                /\ ~entryExists'
                /\ entryData' = entryData]_vars

\* the user form shown again after a custom URL that normalizes to nothing
C11_Witness ==
    /\ uf.step = "user"
    /\ uf.errors = "invalid_url"
    /\ uf.submits = 1
    /\ uf.logins = 0
    /\ ~inflight["user"].active
    /\ ~entryExists

-----------------------------------------------------------------------------
(* Per-camera credential resolution in the options flow *)

\* the values a run leaves in the dict it was given
Resolved(run) ==
    [enc_key |-> IF run.enc = "ok" THEN FetchedEncKey ELSE run.given.enc_key,
     password |-> IF run.vc = "ok" THEN FetchedVerificationCode
                                   ELSE run.given.password]

\* what the options flow hands to the resolver when the record it stored is
\* submitted again
Resubmitted(run) ==
    DictMerge(run.data,
        [ip_address |-> "192.0.2.10", cloud_account_username |-> Account,
         ephemeral_test_rtsp |-> FALSE])

\* C12: a run of the resolver fetches the encryption key (the verification
\* code) only if the submitted value is the fetch sentinel; for a concrete
\* submitted value it makes no fetch call and no code request and leaves the
\* value as submitted; a successful run leaves two concrete values, and
\* resolving those again makes no fetch call and returns the same values
C12_CredentialIdempotence ==
    res.ran =>
        /\ res.enc # "none" => res.given.enc_key = "fetch_my_key"
        /\ res.vc # "none" => res.given.password = "fetch_my_key"
        /\ res.given.enc_key # "fetch_my_key" =>
              /\ res.enc = "none"
              /\ res.data["enc_key"] = res.given.enc_key
        /\ res.given.password # "fetch_my_key" =>
              /\ res.vc = "none"
              /\ res.twofa = "none"
              /\ res.data["password"] = res.given.password
        /\ res.raised = "none" =>
              /\ res.data["enc_key"] # "fetch_my_key"
              /\ res.data["password"] # "fetch_my_key"
              /\ \A a \in AnswersFor(Resubmitted(res)) :
                    LET again == _test_rtsp_credentials(res.step,
                                                        Resubmitted(res), a)
                    IN  /\ again.enc = "none"
                        /\ again.vc = "none"
                        /\ again.twofa = "none"
                        /\ again.raised = "none"
                        /\ again.data = res.data

\* the stored record of fetched values is submitted as the form shows it:
\* no fetch, the same values stored
C12_Witness ==
    /\ opt.step = "create_entry"
    /\ res.ran
    /\ res.given = [enc_key |-> FetchedEncKey, password |-> FetchedVerificationCode]
    /\ res.enc = "none"
    /\ res.vc = "none"
    /\ res.raised = "none"
    /\ entryOptions["cameras"][res.serial]["enc_key"] = FetchedEncKey
    /\ entryOptions["cameras"][res.serial]["password"] = FetchedVerificationCode

\* the step in which a camera step's resolution succeeded
CameraEditSucceeds ==
    /\ opt.step \in {"camera_edit", "camera_edit_2fa"}
    /\ opt'.step = "create_entry"
    /\ res'.ran

\* C13: the persisted options hold a timeout and the camera map, and every
\* camera record has exactly the five fields username, password
\* (verification code), enc_key, rtsp_uses_verification_code and
\* ffmpeg_arguments (stream path): no one-time code, probe flag, device
\* address or account name is ever stored; a successful camera edit, direct
\* or through camera_edit_2fa, stores for the edited serial the resolved
\* values and leaves the other records and the timeout as they were
C13_PersistedRecord ==
    [][/\ DOMAIN entryOptions' = {"timeout", "cameras"}
       /\ \A s \in DOMAIN entryOptions'["cameras"] :
             DOMAIN entryOptions'["cameras"][s] =
                {"username", "password", "enc_key",
                 "rtsp_uses_verification_code", "ffmpeg_arguments"}
       /\ CameraEditSucceeds =>
             LET rec == entryOptions'["cameras"][opt.cam_serial]
             IN  /\ res'.raised = "none"
                 /\ res'.serial = opt.cam_serial
                 /\ rec["enc_key"] = Resolved(res').enc_key
                 /\ rec["password"] = Resolved(res').password
                 /\ \A k \in DOMAIN rec : rec[k] = res'.data[k]
                 /\ entryOptions'["timeout"] = entryOptions["timeout"]
                 /\ DOMAIN entryOptions'["cameras"] =
                       DOMAIN entryOptions["cameras"] \cup {opt.cam_serial}
                 /\ \A s \in DOMAIN entryOptions["cameras"] \ {opt.cam_serial} :
                       entryOptions'["cameras"][s] = entryOptions["cameras"][s]
       /\ (entryOptions' # entryOptions) =>
             \/ CameraEditSucceeds
             \/ opt.step = "cloud" /\ opt'.step = "create_entry"]_vars

\* a record stored through the 2FA step, key fetched with a one-time code and
\* probed
C13_Witness ==
    /\ opt.step = "create_entry"
    /\ res.ran
    /\ res.step = "camera_edit_2fa"
    /\ res.enc = "ok"
    /\ res.enc_code = "654321"
    /\ res.probe = "ok"
    /\ res.serial = "D1"
    /\ entryOptions["cameras"]["D1"]["enc_key"] = FetchedEncKey
    /\ "D2" \in DOMAIN entryOptions["cameras"]

\* the resolver's fetch was answered 'verification required' and the code
\* request, where one is made, went through
VerificationRequired(run) ==
    /\ run.ran
    /\ \/ run.enc = "verification_required"
       \/ run.vc = "verification_required" /\ run.twofa = "ok"

\* C14: a camera_edit submission whose resolution signals 'verification
\* required' stores nothing and shows camera_edit_2fa, holding the payload of
\* that submission for the serial; a camera_edit_2fa submission runs the
\* resolution once, for the same serial and from the held payload, passing
\* None for a code left empty; when it succeeds the record of the serial is
\* stored, when it signals 'verification required' again the 2FA form stays
\* with error verification_required and the payload is kept; without a held
\* payload the step makes no run and shows camera_edit
C14_DeviceMfaBranch ==
    [][/\ (opt.step = "camera_edit" /\ VerificationRequired(res')) =>
             /\ entryOptions' = entryOptions
             /\ opt'.step = "camera_edit_2fa"
             /\ opt'.errors = ""
             /\ DOMAIN opt'.pending # {}
             /\ opt'.pending["serial"] = opt.cam_serial
             /\ opt'.pending["enc_key"] = Resolved(res').enc_key
             /\ opt'.pending["password"] = res'.given.password
             /\ opt'.cam_serial = opt.cam_serial
       /\ (opt.step = "camera_edit_2fa" /\ opt'.submits = opt.submits + 1) =>
             /\ DOMAIN opt.pending # {}
             /\ res'.ran
             /\ res'.step = "camera_edit_2fa"
             /\ res'.serial = opt.cam_serial
             /\ res'.serial = opt.pending["serial"]
             /\ res'.given = [enc_key |-> opt.pending["enc_key"],
                              password |-> opt.pending["password"]]
             /\ res'.enc_code # ""
             /\ res'.vc_code # ""
             /\ res'.raised = "none" =>
                   /\ opt'.step = "create_entry"
                   /\ opt.cam_serial \in DOMAIN entryOptions'["cameras"]
                   /\ entryOptions'["cameras"][opt.cam_serial]["enc_key"]
                         = Resolved(res').enc_key
                   /\ entryOptions'["cameras"][opt.cam_serial]["password"]
                         = Resolved(res').password
             /\ VerificationRequired(res') =>
                   /\ opt'.step = "camera_edit_2fa"
                   /\ opt'.errors = "verification_required"
                   /\ opt'.pending = opt.pending
                   /\ entryOptions' = entryOptions
       /\ (opt.step = "camera_edit_2fa" /\ DOMAIN opt.pending = {}) =>
             /\ ~res'.ran
             /\ opt'.step \in {"camera_edit", "camera_edit_2fa"}
      ]_vars

\* camera_edit asked for both secrets, the key fetch demanded a code; the
\* 2FA submission carried both codes and the record was stored
C14_Witness ==
    /\ opt.step = "create_entry"
    /\ res.ran
    /\ res.step = "camera_edit_2fa"
    /\ res.given = [enc_key |-> "fetch_my_key", password |-> "fetch_my_key"]
    /\ res.enc = "ok"
    /\ res.vc = "ok"
    /\ res.enc_code = "654321"
    /\ res.vc_code = "123456"
    /\ res.raised = "none"
    /\ entryOptions["cameras"][res.serial]["password"] = FetchedVerificationCode

\* C15: in every run of the resolver, each fetch answered 'verification
\* required' (encryption key or verification code) is followed by exactly
\* one request to send a one-time code (get_2fa_check_code, business type
\* DEVICE_AUTH_CODE) before the run ends
C15_CodeRequestedPerChallenge ==
    res.ran =>
        LET challenges ==
                (IF res.enc = "verification_required" THEN 1 ELSE 0)
                + (IF res.vc = "verification_required" THEN 1 ELSE 0)
            requests == IF res.twofa # "none" THEN 1 ELSE 0
        IN  requests = challenges

\* C16: within one options flow, once an encryption-key fetch has succeeded,
\* no later camera_edit_2fa submission and no later submission of the
\* camera_edit form as prefilled issues another encryption-key fetch
C16_NoEncKeyRefetch ==
    [][(/\ opt.enc_key_fetched
        /\ res'.ran
        /\ opt'.submits = opt.submits + 1
        /\ \/ opt.step = "camera_edit_2fa"
           \/ /\ opt.step = "camera_edit"
              /\ res'.given.enc_key = opt.defaults["enc_key"])
       => res'.enc = "none"]_vars

\* C17: a credential fetch answered 'session expired' leaves the resolver as
\* an outcome of its own, not the one of API errors, device errors or probe
\* failures, and the form shows none of their errors
C17_SessionExpiredDistinct ==
    (res.ran /\ (res.enc = "token_expired" \/ res.vc = "token_expired")) =>
        /\ res.raised \notin {"PyEzvizError", "DeviceException",
                              "AuthTestResultFailed"}
        /\ opt.errors \notin {"cannot_connect", "device_exception",
                              "rtsp_auth_failed"}

-----------------------------------------------------------------------------
(* The poller: error classification and the reauthentication signal *)

\* the step is a poll: _async_update_data called load_cameras
Polled == poller'.by = "_async_update_data" /\ poller'.calls = poller.calls + 1

\* C18: a poll answered 'session expired' or 'verification required' raises
\* ConfigEntryAuthFailed and with it the reauthentication signal; a poll
\* answered with an invalid-URL, HTTP or other API error raises UpdateFailed
\* and leaves the reauthentication signal as it was
C18_PollerClassification ==
    [][Polled =>
        /\ poller'.answer \in {"token_expired", "verification_required"} =>
              /\ poller'.raised = "ConfigEntryAuthFailed"
              /\ reauthRaised'
        /\ poller'.answer \in {"invalid_url", "http_error", "api_error"} =>
              /\ poller'.raised = "UpdateFailed"
              /\ reauthRaised' = reauthRaised]_vars

\* a poll has raised the signal and a later poll ended as a failed update
C18_Witness ==
    /\ reauthRaised
    /\ poller.by = "_async_update_data"
    /\ poller.answer \in {"invalid_url", "http_error", "api_error"}
    /\ poller.raised = "UpdateFailed"

\* C19: while the reauthentication signal is raised, no step of the poller
\* or of the encryption-key entity issues a cloud call
C19_NoCallsWhileReauthRaised ==
    [][reauthRaised => poller'.calls = poller.calls]_vars

-----------------------------------------------------------------------------
(* Migration: duplicate serials *)

\* the step migrates the account entry from a version below TARGET_VERSION
MigratesCloudEntry ==
    /\ migration'.ran
    /\ migration'.entry_id = AccountEntryId
    /\ entries[AccountEntryId].version < TARGET_VERSION

\* the camera map of the account entry
CamerasMap(all) ==
    DictGet(all[AccountEntryId].options, OPTIONS_KEY_CAMERAS, EmptyDict)

\* a legacy camera entry carries a serial the camera map already holds
DuplicateSerial ==
    \E id \in DOMAIN entries \ {AccountEntryId} :
        /\ DictGet(entries[id].data, CONF_TYPE, NoneStr) = ATTR_TYPE_CAMERA
        /\ ATTR_SERIAL \in DOMAIN entries[id].data
        /\ entries[id].data[ATTR_SERIAL] \in DOMAIN CamerasMap(entries)

\* C20: migrating the account entry while a legacy camera entry carries a
\* serial already in the camera map ends in an error and never in success;
\* whenever the migration raises, every entry (options, version, data) and
\* the set of entries stay as they were; and no migration changes a record
\* the camera map already held
C20_DuplicateSerialRejected ==
    [][MigratesCloudEntry =>
        /\ DuplicateSerial => migration'.result \in {"ValueError", "KeyError"}
        /\ migration'.result # "true" =>
              /\ entries' = entries
              /\ entryOptions' = entryOptions
        /\ \A s \in DOMAIN CamerasMap(entries) :
              /\ s \in DOMAIN CamerasMap(entries')
              /\ CamerasMap(entries')[s] = CamerasMap(entries)[s]]_vars

\* the migration raised ValueError for a serial whose stored record differs
\* from the legacy entry's, and both are still there
C20_Witness ==
    /\ migration.ran
    /\ migration.result = "ValueError"
    /\ migration.serial \in DOMAIN CamerasMap(entries)
    /\ entries[AccountEntryId].version < TARGET_VERSION
    /\ \E id \in DOMAIN entries \ {AccountEntryId} :
          /\ DictGet(entries[id].data, ATTR_SERIAL, NoneStr) = migration.serial
          /\ LegacyCameraRecord(entries[id])
                # CamerasMap(entries)[migration.serial]

-----------------------------------------------------------------------------
(* The RTSP probe: opt-in, ordering, partial data, error codes *)

\* C21: a run of the resolver whose caller did not set the probe flag issues
\* neither the wake-up read nor the probe, and it ends without an error
\* exactly when none of its cloud fetches failed
C21_ProbeOptIn ==
    (res.ran /\ ~res.probe_flag) =>
        /\ res.wake = "none"
        /\ res.probe = "none"
        /\ res.raised = "none" <=>
              (res.enc \in {"none", "ok"} /\ res.vc \in {"none", "ok"})

\* a run without the probe flag fetched a secret and succeeded
C21_Witness ==
    /\ res.ran
    /\ ~res.probe_flag
    /\ res.enc = "ok"
    /\ res.raised = "none"

\* the order the claim gives to the calls of one resolution
CallOrder ==
    <<"get_cam_key", "get_cam_auth_code", "get_2fa_check_code",
      "get_detection_sensibility", "TestRTSPAuth">>

Rank(call) == CHOOSE i \in 1..Len(CallOrder) : CallOrder[i] = call

\* C22: the calls of one run of the resolver are issued in the order
\* encryption-key fetch, verification-code fetch, wake-up read, probe; the
\* probe is issued only after the fetches and the wake-up read succeeded, and
\* it is given the resolved verification code when the uses-verification-code
\* flag is set and the resolved encryption key otherwise, never the sentinel
C22_OrderedResolutionAndProbe ==
    res.ran =>
        /\ \A i, j \in 1..Len(res.calls) :
              i < j => Rank(res.calls[i]) < Rank(res.calls[j])
        /\ res.probe # "none" =>
              /\ res.enc \in {"none", "ok"}
              /\ res.vc \in {"none", "ok"}
              /\ res.wake = "ok"
              /\ res.probe_secret =
                    IF res.data[CONF_RTSP_USES_VERIFICATION_CODE]
                    THEN res.data[CONF_PASSWORD] ELSE res.data[CONF_ENC_KEY]
              /\ res.probe_secret # DEFAULT_FETCH_MY_KEY

\* both secrets were fetched, the device was woken and the probe was given
\* the fetched verification code
C22_Witness ==
    /\ res.ran
    /\ res.calls = <<"get_cam_key", "get_cam_auth_code",
                     "get_detection_sensibility", "TestRTSPAuth">>
    /\ res.data[CONF_RTSP_USES_VERIFICATION_CODE]
    /\ res.probe_secret = FetchedVerificationCode

\* the step is a submission whose resolution ended in a device error
DeviceErrorStep ==
    /\ res'.ran
    /\ opt'.submits = opt.submits + 1
    /\ res'.raised = "DeviceException"

\* C23: a camera_edit or camera_edit_2fa submission ending in a device error
\* stores nothing and shows the camera_edit form again with every secret the
\* run fetched as the default of its field; submitting that form with these
\* defaults fetches none of them again
C23_PartialDataKept ==
    [][/\ DeviceErrorStep =>
             /\ entryOptions' = entryOptions
             /\ opt'.step = "camera_edit"
             /\ res'.enc = "ok" => opt'.defaults[CONF_ENC_KEY] = FetchedEncKey
             /\ res'.vc = "ok" =>
                   opt'.defaults[CONF_PASSWORD] = FetchedVerificationCode
       /\ (/\ opt.step = "camera_edit"
           /\ res.ran
           /\ res.raised = "DeviceException"
           /\ res'.ran
           /\ res'.given.enc_key = opt.defaults[CONF_ENC_KEY]
           /\ res'.given.password = opt.defaults[CONF_PASSWORD]) =>
             /\ res.enc = "ok" =>
                   res'.enc = "none" /\ res'.given.enc_key = FetchedEncKey
             /\ res.vc = "ok" =>
                   /\ res'.vc = "none"
                   /\ res'.given.password = FetchedVerificationCode]_vars

\* a 2FA submission fetched the encryption key, the verification-code fetch
\* ended in a device error, and the camera_edit form shows the fetched key
C23_Witness ==
    /\ res.ran
    /\ res.step = "camera_edit_2fa"
    /\ res.enc = "ok"
    /\ res.raised = "DeviceException"
    /\ opt.step = "camera_edit"
    /\ opt.defaults[CONF_ENC_KEY] = FetchedEncKey

\* C24: a camera_edit or camera_edit_2fa submission whose resolution failed
\* and which ends by showing a form shows it with the base error of the
\* failure class (verification_required, rtsp_auth_failed, device_exception,
\* cannot_connect); the first display of the camera_edit_2fa form, which is
\* itself the request for the codes, is left aside
C24_ErrorsDistinguishable ==
    [][(/\ res'.ran
        /\ opt'.submits = opt.submits + 1
        /\ res'.raised # "none"
        /\ opt'.step \in {"camera_edit", "camera_edit_2fa"}
        /\ ~(opt.step = "camera_edit" /\ opt'.step = "camera_edit_2fa"))
       => /\ opt'.errors # ""
          /\ opt'.errors = CameraError(res'.raised)]_vars

-----------------------------------------------------------------------------
(* The two secret kinds: unsupported kinds, independence *)

\* the run went on after its encryption-key (verification-code) fetch: it
\* ended without an error or with the error of a later call
WentOnAfterEnc(run) ==
    \/ run.raised = "none"
    \/ run.vc \notin {"none", "ok"}
    \/ run.wake \notin {"none", "ok"}
    \/ run.probe \notin {"none", "ok"}

WentOnAfterVc(run) ==
    \/ run.raised = "none"
    \/ run.wake \notin {"none", "ok"}
    \/ run.probe \notin {"none", "ok"}

\* C25: a fetch refused because the device does not support that kind of
\* secret raises no error and leaves the field holding the fetch sentinel,
\* and the other kind, when marked, is still fetched
C25_UnsupportedKindKeepsPlaceholder ==
    res.ran =>
        /\ res.enc = "unsupported" =>
              /\ WentOnAfterEnc(res)
              /\ res.data[CONF_ENC_KEY] = DEFAULT_FETCH_MY_KEY
              /\ res.given.password = DEFAULT_FETCH_MY_KEY => res.vc # "none"
        /\ res.vc = "unsupported" =>
              /\ WentOnAfterVc(res)
              /\ res.data[CONF_PASSWORD] = DEFAULT_FETCH_MY_KEY

\* C26: in every run of the resolver each kind marked with the fetch
\* sentinel is fetched, whatever the fetch of the other kind answered, and a
\* fetched value is the one left in the data, whatever the other fetch
\* answered
C26_KindsIndependent ==
    res.ran =>
        /\ res.given.enc_key = DEFAULT_FETCH_MY_KEY => res.enc # "none"
        /\ res.given.password = DEFAULT_FETCH_MY_KEY => res.vc # "none"
        /\ res.enc = "ok" => res.data[CONF_ENC_KEY] = FetchedEncKey
        /\ res.vc = "ok" => res.data[CONF_PASSWORD] = FetchedVerificationCode

-----------------------------------------------------------------------------
(* What is persisted and what is logged *)

\* the fields of the account entry's data
AccountDataKeys ==
    {CONF_TYPE, CONF_SESSION_ID, CONF_RF_SESSION_ID, CONF_URL, CONF_USER_ID}

\* the account password and the one-time login codes a user can type
LoginSecrets == Passwords \cup (SmsCodes \ {""})

\* C27: the data of the account entry has no field besides type, session_id,
\* rf_session_id, url and user_id, and an entry created by the user step or
\* the MFA step has exactly these; no field of the data holds the account
\* password or a one-time login code, and the options hold only the timeout
\* and the camera map
C27_OnlyTokensPersisted ==
    entryExists =>
        /\ DOMAIN entryData \subseteq AccountDataKeys
        /\ uf.step = "create_entry" => DOMAIN entryData = AccountDataKeys
        /\ \A k \in DOMAIN entryData \ {CONF_URL} :
              entryData[k] \notin LoginSecrets
        /\ DOMAIN entryOptions \subseteq {CONF_TIMEOUT, OPTIONS_KEY_CAMERAS}
        /\ CONF_TIMEOUT \in DOMAIN entryOptions =>
              entryOptions[CONF_TIMEOUT] \in Timeouts
        /\ OPTIONS_KEY_CAMERAS \in DOMAIN entryOptions =>
              entryOptions[OPTIONS_KEY_CAMERAS] = EmptyDict

\* an entry created through the MFA step, whose tokens a reauthentication
\* then replaced
C27_Witness ==
    /\ entryExists
    /\ uf.step = "create_entry"
    /\ uf.logins = 2
    /\ rf.step = "done"
    /\ DOMAIN entryData = AccountDataKeys

\* the device secrets the camera platform was configured with
ConfiguredSecrets ==
    {legacyCams.conf_cameras[s].password : s \in DOMAIN legacyCams.conf_cameras}

\* C28: no log record carries a device verification code or encryption key,
\* as an argument or inside a stream URL
C28_NoSecretLogged ==
    \A rec \in legacyCams.log :
        \A i \in 1..Len(rec.url) : rec.url[i] \notin ConfiguredSecrets

-----------------------------------------------------------------------------
(* The cloud options step *)

\* the cloud form was submitted in this step
CloudSubmitted == opt.step = "cloud" /\ opt'.step = "create_entry"

\* C29: the cloud options step stores the previous options with the timeout
\* replaced: every other option, the per-camera map included, is unchanged
C29_CloudChangesOnlyTimeout ==
    [][CloudSubmitted =>
          /\ DOMAIN entryOptions' = DOMAIN entryOptions \cup {CONF_TIMEOUT}
          /\ entryOptions'[CONF_TIMEOUT] \in Timeouts
          /\ \A k \in DOMAIN entryOptions \ {CONF_TIMEOUT} :
                entryOptions'[k] = entryOptions[k]
          /\ entryData' = entryData]_vars

\* the cloud step replaced the default timeout of options holding camera D1
C29_Witness ==
    /\ opt.step = "create_entry"
    /\ res = NoRun
    /\ entryOptions[CONF_TIMEOUT] = 10
    /\ DOMAIN entryOptions[OPTIONS_KEY_CAMERAS] = {"D1"}
    /\ entryOptions[OPTIONS_KEY_CAMERAS]["D1"][CONF_PASSWORD] = "VC0"

-----------------------------------------------------------------------------
(* Host normalization *)

\* C30: for every input string the normalized host does not start with
\* http:// or https:// and ends with neither a slash nor whitespace
C30_NormalizedHostClean ==
    hostCall.done =>
        /\ ~StartsWith(hostCall.host, HTTP_PREFIX)
        /\ ~StartsWith(hostCall.host, HTTPS_PREFIX)
        /\ \/ hostCall.host = <<>>
           \/ hostCall.host[Len(hostCall.host)] \notin Whitespace \cup {"/"}

\* C40: normalization is idempotent: normalizing the normalized host again
\* yields the same string
C40_NormalizeIdempotent ==
    hostCall.done => _normalize_api_host(hostCall.host) = hostCall.host

-----------------------------------------------------------------------------
(* Entry setup: failures, unload *)

\* the step in which the login of async_setup_entry fails
SetupLoginFails ==
    /\ setupState.pc = "login"
    /\ setupState'.pc = "idle"
    /\ resp'.kind # "ok"

\* C31: a setup of a cloud entry missing one of session_id, rf_session_id,
\* url, user_id raises auth failed without a login call; a login answered
\* token expired or verification required raises auth failed; another API
\* or transport error raises not ready; none of them creates runtime data
C31_SetupClassifiesFailures ==
    [][/\ (/\ async_setup_entry_begin
           /\ entryData[CONF_TYPE] = ATTR_TYPE_CLOUD
           /\ ~({CONF_SESSION_ID, CONF_RF_SESSION_ID, CONF_URL, CONF_USER_ID}
                    \subseteq DOMAIN entryData))
          => /\ setupState'.result = "auth_failed"
             /\ setupState'.pc = "idle"
             /\ reauthRaised'
             /\ inflight' = inflight
             /\ ~runtimeData'
       /\ SetupLoginFails
          => /\ resp'.kind \in {"token_expired", "verification_required"}
                  => (setupState'.result = "auth_failed" /\ reauthRaised')
             /\ resp'.kind = "api_error"
                  => /\ setupState'.result = "not_ready"
                     /\ reauthRaised' = reauthRaised
             /\ ~runtimeData'
             /\ entryData' = entryData]_vars

\* a setup whose login was answered token expired raised auth failed
C31_Witness ==
    /\ resp.to = "setup"
    /\ resp.kind = "token_expired"
    /\ setupState.result = "auth_failed"
    /\ reauthRaised
    /\ ~runtimeData

-----------------------------------------------------------------------------
(* Writers of the entry options *)

\* the options flow stores the credentials of its camera in this step
CameraEditSaves == opt.step = "camera_edit" /\ opt'.step = "create_entry"

\* C32: saving the credentials of a camera through the options flow leaves
\* the stored options of every other camera as they are, also when the key
\* entity of another camera wrote the options while the edit's calls were
\* in flight
C32_OtherCamerasKept ==
    [][CameraEditSaves =>
          \A other \in Cameras \ {opt.cam_serial} :
              PerCam(entryOptions', other) = PerCam(entryOptions, other)]_vars

-----------------------------------------------------------------------------
(* Runtime data, the MQTT listener and unload *)

\* C33: every push callback that runs on the event loop finds the handler's
\* coordinator reference set, whatever the interleaving of start and the
\* callbacks
C33_CoordinatorSetWhenHandled == mqtt.failed = 0

\* C34: whenever the entry's runtime data is present, its MQTT listener is
\* running
C34_RuntimeDataImpliesListener == runtimeData => mqtt.listener = "connected"

\* C35: async_unload_entry completes without error on every entry whose
\* setup returned True
C35_UnloadCompletes == mqtt.unload.result # "KeyError"

-----------------------------------------------------------------------------
(* Reauthentication with several accounts *)

\* C36: the entry whose data a successful reauthentication replaces is the
\* entry whose setup raised the reauthentication signal
C36_ReauthUpdatesRaisingEntry ==
    [][(rf.step \in {"reauth_confirm", "reauth_mfa"} /\ rf'.step = "done")
          => \A id \in DOMAIN entries :
                entries'[id] # entries[id] => id = rf.entry_id]_vars

-----------------------------------------------------------------------------
(* Migration: credentials kept *)

\* the legacy camera entries beside the account entry
LegacyCamIds(all) ==
    { id \in DOMAIN all \ {AccountEntryId} :
        DictGet(all[id].data, CONF_TYPE, NoneStr) = ATTR_TYPE_CAMERA }

\* the record the camera map is to hold for a legacy camera entry
MigratedRecord(e) ==
    [username |-> DictGet(e.data, "username", "admin"),
     password |-> DictGet(e.data, "password", "fetch_my_key"),
     enc_key |-> DictGet(e.data, "enc_key", "fetch_my_key"),
     rtsp_uses_verification_code |->
        DictGet(e.data, "rtsp_uses_verification_code", FALSE),
     ffmpeg_arguments |->
        DictGet(e.options, "ffmpeg_arguments", "/Streaming/Channels/102")]

\* every legacy camera entry of the state before the step has its record in
\* the camera map after it, the account entry is at version 4 with the
\* options the model of the store holds, and no legacy camera entry is left
AllLegacyMigrated ==
    /\ \A id \in LegacyCamIds(entries) :
          /\ ATTR_SERIAL \in DOMAIN entries[id].data
          /\ entries[id].data[ATTR_SERIAL] \in DOMAIN CamerasMap(entries')
          /\ CamerasMap(entries')[entries[id].data[ATTR_SERIAL]]
                = MigratedRecord(entries[id])
    /\ entries'[AccountEntryId].version = 4
    /\ entryOptions' = entries'[AccountEntryId].options
    /\ LegacyCamIds(entries') = {}

\* C37 as stated: every migration of the account entry from a version below
\* 4 adds every legacy camera entry's record to the camera map, reaches
\* version 4 and leaves no legacy camera entry
C37_EveryMigrationAbsorbsAll ==
    [][MigratesCloudEntry => AllLegacyMigrated]_vars

\* C37: a migration of the account entry from a version below 4 that
\* completes adds every legacy camera entry's record (username, verification
\* code, encryption key, flag, stream path, with the defaults admin, fetch
\* sentinel, fetch sentinel, false, default path) to the camera map, writes
\* the account entry's options and version 4 first and removes each legacy
\* camera entry after that, so that none remains; a migration that raises
\* and a migration of an entry already at version 4 or higher change nothing
C37_CompletedMigrationKeepsCredentials ==
    [][(migration'.ran /\ migration'.entry_id = AccountEntryId) =>
        IF entries[AccountEntryId].version >= 4 \/ migration'.result # "true"
        THEN /\ entries' = entries
             /\ entryOptions' = entryOptions
             /\ migration'.calls = <<>>
        ELSE /\ AllLegacyMigrated
             /\ Len(migration'.calls)
                   = 1 + Cardinality(LegacyCamIds(entries))
             /\ migration'.calls[1] = "async_update_entry"
             /\ \A i \in 2..Len(migration'.calls) :
                   migration'.calls[i] = "async_remove"]_vars

\* a migration completed that absorbed two legacy camera entries, one of
\* them with nothing but its serial, whose record holds the defaults
C37_Witness ==
    /\ migration.ran
    /\ migration.entry_id = AccountEntryId
    /\ migration.result = "true"
    /\ Len(migration.calls) = 3
    /\ entries[AccountEntryId].version = 4
    /\ LegacyCamIds(entries) = {}
    /\ \E s, t \in DOMAIN CamerasMap(entries) :
          /\ CamerasMap(entries)[s] =
                [username |-> "admin", password |-> "fetch_my_key",
                 enc_key |-> "fetch_my_key",
                 rtsp_uses_verification_code |-> FALSE,
                 ffmpeg_arguments |-> "/Streaming/Channels/102"]
          /\ CamerasMap(entries)[t].password = "VC2"
          /\ CamerasMap(entries)[t].ffmpeg_arguments
                = "/Streaming/Channels/101"

-----------------------------------------------------------------------------
(* The encryption-key entity: when it fetches, what it stores *)

\* the step is an async_update of the entity that called get_cam_key
KeyFetchAttempted ==
    /\ poller'.by = "async_update"
    /\ poller'.calls = poller.calls + 1

\* C38: an update of the encryption-key entity calls get_cam_key only if no
\* earlier fetch of the entity was answered "verification required", the
\* device is online (status is not 2) and the entity's key hash is missing
\* or differs from the polled hash; a fetch answered "verification
\* required" clears the entity's mfa_enabled, nothing sets it again, and no
\* update fetches while it is cleared
C38_FetchOnlyWhenWanted ==
    [][/\ KeyFetchAttempted =>
             /\ poller.text.mfa_enabled
             /\ poller.data.status # 2
             /\ \/ poller.text.current_enc_key_hash = NoneSeq
                \/ poller.text.current_enc_key_hash
                      # poller.data.encrypted_pwd_hash
       /\ (KeyFetchAttempted /\ poller'.answer = "verification_required")
             => ~poller'.text.mfa_enabled
       /\ ~poller.text.mfa_enabled => ~poller'.text.mfa_enabled]_vars

\* an update found the device online and no key hash held, and did not
\* fetch, because an earlier fetch was answered "verification required"
C38_Witness ==
    /\ poller.by = "async_update"
    /\ poller.answer = "none"
    /\ poller.calls > 0
    /\ ~poller.text.mfa_enabled
    /\ poller.data.status # 2
    /\ poller.text.current_enc_key_hash = NoneSeq

\* the step is a run of the entity that called the cloud: get_cam_key in
\* async_update, set_video_enc in set_value
KeyCallMade ==
    /\ poller'.by \in {"async_update", "set_value"}
    /\ poller'.calls = poller.calls + 1

\* the entity's value, its hash and the camera's persisted enc_key belong to
\* one key, and nothing else of the entry options differs from before
KeyStoredEverywhere ==
    /\ poller'.text.native_value \in EncKeys
    /\ poller'.text.current_enc_key_hash
          = <<"hash", poller'.text.native_value>>
    /\ DOMAIN PerCam(entryOptions', "D1")
          = DOMAIN PerCam(entryOptions, "D1") \cup {"enc_key"}
    /\ PerCam(entryOptions', "D1").enc_key = poller'.text.native_value
    /\ \A k \in DOMAIN PerCam(entryOptions, "D1") \ {"enc_key"} :
          PerCam(entryOptions', "D1")[k] = PerCam(entryOptions, "D1")[k]
    /\ \A serial \in {"D2", "D3"} :
          PerCam(entryOptions', serial) = PerCam(entryOptions, serial)
    /\ DictGet(entryOptions', "timeout", 0) = DictGet(entryOptions, "timeout", 0)

\* C39: after a successful key fetch or a successful set_value the entity's
\* value, its hash and the persisted enc_key of the camera are those of one
\* key, with the camera's other fields and the other cameras' options as
\* before; after a failed cloud call the value, the hash and the entry
\* options are as before
C39_KeyStoredConsistently ==
    [][KeyCallMade =>
        IF poller'.answer = "ok"
        THEN KeyStoredEverywhere
        ELSE /\ poller'.text.native_value = poller.text.native_value
             /\ poller'.text.current_enc_key_hash
                   = poller.text.current_enc_key_hash
             /\ entryOptions' = entryOptions]_vars

====
